---- MODULE Spec2Model ----
(***************************************************************************)
(* Model of the Path Transmission Core of PolarGraph                        *)
(* (src/visualization/polargraph/path_sender.py): the PathSender            *)
(* coordinator, its PathSendJob records and the worker thread _run_job.     *)
(*                                                                          *)
(* Time is counted in ticks of 0.1 s.  The points of a job are identified   *)
(* by their index in job.points; a batch is a pair (start index, length).   *)
(***************************************************************************)
EXTENDS Integers, Sequences, FiniteSets, TLC

\* ------------------------------------------------------------------ bounds
MaxJobs == 2        \* number of start_job calls that install a job
MaxSeen == 2        \* cancel POSTs and idle snapshots are counted up to this
MaxPoints == 2      \* largest number of user points handed to start_job

\* --------------------------------------------------------------- constants
ACTIVE_JOB_STATUSES == {"pending", "running", "cancelling"}
FINAL_JOB_STATUSES == {"completed", "cancelled", "failed"}

Max(a, b) == IF a >= b THEN a ELSE b
Min(a, b) == IF a <= b THEN a ELSE b

\* Optional values: <<>> is None, <<v>> is v.
IsNone(o) == o = <<>>

\* ------------------------------------------------- PathSender.__init__
\* The constructor clamps its arguments.  Durations are in ticks of 0.1 s, so
\* the floor 0.1 of status_poll_interval is 1 and the floor 0.5 of
\* send_retry_interval is 5.
PathSenderInit(a) ==
    LET mppr == Max(1, a.max_points_per_request)
        bs   == Max(1, Min(a.batch_size, mppr))
        spi  == Max(1, a.status_poll_interval)
        st   == Max(spi, a.status_timeout)
        sri  == Max(5, a.send_retry_interval)
        srt  == Max(sri, a.send_retry_timeout)
        cap  == Max(1, a.controller_queue_capacity)
        dft  == Max(1, cap - 500)
        qft0 == IF IsNone(a.queue_fill_target) THEN dft
                ELSE Max(1, Min(a.queue_fill_target[1], cap))
        low  == Max(0, a.queue_low_watermark)
        mcs0 == Max(1, a.min_chunk_size)
        mcs  == IF mcs0 > mppr THEN mppr ELSE mcs0
        qft  == IF qft0 <= low
                THEN Min(cap, Max(low + mcs, low + 1))
                ELSE qft0
    IN  [ max_points_per_request    |-> mppr,
          batch_size                |-> bs,
          timeout                   |-> a.timeout,
          status_poll_interval      |-> spi,
          status_timeout            |-> st,
          send_retry_interval       |-> sri,
          send_retry_timeout        |-> srt,
          controller_queue_capacity |-> cap,
          queue_fill_target         |-> qft,
          queue_low_watermark       |-> low,
          min_chunk_size            |-> mcs ]

\* The constructor's defaults (path_sender.py:110-120), in ticks.
DefaultArgs ==
    [ batch_size |-> 200, timeout |-> 300, status_poll_interval |-> 5,
      status_timeout |-> 3000, send_retry_interval |-> 20,
      send_retry_timeout |-> 1200, controller_queue_capacity |-> 3000,
      queue_fill_target |-> <<>>, queue_low_watermark |-> 200,
      min_chunk_size |-> 200, max_points_per_request |-> 200 ]

\* A sender scaled down so that a job of a few points needs several batches,
\* the controller queue can fill up, and the deadlines are a few ticks away.
SmallArgs ==
    [ batch_size |-> 2, timeout |-> 3, status_poll_interval |-> 1,
      status_timeout |-> 3, send_retry_interval |-> 5,
      send_retry_timeout |-> 5, controller_queue_capacity |-> 3,
      queue_fill_target |-> <<3>>, queue_low_watermark |-> 1,
      min_chunk_size |-> 2, max_points_per_request |-> 2 ]

\* ------------------------------------------------------------ PathSendJob
\* Ceiling division, as lines 77 and 352 write it.
CeilDiv(a, b) == (a + b - 1) \div b

\* The dataclass defaults and __post_init__; n_points is len(job.points).
NewJob(c, points, start, reset, has_status_url, has_cancel_url) ==
    [ status         |-> "pending",
      sent_points    |-> 0,
      sent_batches   |-> 0,
      total_batches  |-> IF c.batch_size > 0
                         THEN CeilDiv(Len(points), c.batch_size) ELSE 0,
      error          |-> "None",
      paused         |-> FALSE,
      cancel_event   |-> FALSE,
      pause_event    |-> TRUE,
      points         |-> points,
      n_points       |-> Len(points),
      batch_size     |-> c.batch_size,
      start_position |-> start,
      reset          |-> reset,
      status_url     |-> has_status_url,
      cancel_url     |-> has_cancel_url ]

request_cancel(J) == [J EXCEPT !.cancel_event = TRUE]

pause(J) == [J EXCEPT !.paused = TRUE, !.pause_event = FALSE]

resume(J) == [J EXCEPT !.paused = FALSE, !.pause_event = TRUE]

\* wait_if_paused polls the pause event every 0.1 s: it returns True as soon
\* as the event is set, False when the event is clear and cancel is set, and
\* keeps waiting otherwise.
WaitIfPausedTrue_NoGate(J) == TRUE

WaitIfPausedTrue(J) == J.pause_event
WaitIfPausedFalse_Never(J) == FALSE

WaitIfPausedFalse(J) == ~J.pause_event /\ J.cancel_event

mark_running(J) ==
    [J EXCEPT !.status = "running",
              !.total_batches =
                  IF J.batch_size > 0
                  THEN Max(J.total_batches, CeilDiv(J.n_points, J.batch_size))
                  ELSE J.total_batches]

mark_complete(J) == [J EXCEPT !.status = "completed", !.error = "None"]

mark_failed(J, message) == [J EXCEPT !.status = "failed", !.error = message]

mark_cancelled(J) ==
    [J EXCEPT !.status = "cancelled",
              !.error = IF J.error = "None" THEN "Cancelled" ELSE J.error]

\* ----------------------------------------------------------------- points
\* A point as the caller hands it to start_job.  A coordinate is the number
\* 0 or 1 ("0", "1"), the float nan ("nan"), the string '1' ("'1'"), a
\* string that is no number ("text"), None ("None"), or its key is missing
\* ("absent"); penDown is True, False or missing; dict is whether the
\* element is a dictionary at all.
Point(x, y, penDown) == [dict |-> TRUE, x |-> x, y |-> y, penDown |-> penDown]

NotADict == [dict |-> FALSE, x |-> "absent", y |-> "absent", penDown |-> "absent"]

\* Python's float(): a number stays, a numeric string is parsed, another
\* string raises ValueError, None raises TypeError.
float(v) ==
    CASE v \in {"0", "1", "nan"} -> [raises |-> "None", value |-> v]
      [] v = "'1'"                -> [raises |-> "None", value |-> "1"]
      [] v = "text"               -> [raises |-> "ValueError", value |-> v]
      [] OTHER                    -> [raises |-> "TypeError", value |-> v]

\* A normalized point, or the exception raised instead.
Normal(x, y, penDown) ==
    [raises |-> "None", x |-> x, y |-> y, penDown |-> penDown]

Raised(e) == [raises |-> e, x |-> "0", y |-> "0", penDown |-> FALSE]

\* _normalize_point (468-479); bool(point.get("penDown")) is False for a
\* missing key.
_normalize_point(point) ==
    IF ~point.dict THEN Raised("ValueError")
    ELSE IF point.x = "absent" \/ point.y = "absent" THEN Raised("ValueError")
    ELSE IF float(point.x).raises # "None" THEN Raised(float(point.x).raises)
    ELSE IF float(point.y).raises # "None" THEN Raised(float(point.y).raises)
    ELSE Normal(float(point.x).value, float(point.y).value,
                point.penDown = "True")

\* Line 166: the list comprehension stops at the first element that raises.
NormalizeRaises(points) ==
    LET bad == {i \in 1 .. Len(points) :
                  _normalize_point(points[i]).raises # "None"}
    IN  IF bad = {} THEN "None"
        ELSE _normalize_point(
                 points[CHOOSE i \in bad : \A k \in bad : i <= k]).raises

normalized(points) ==
    [i \in 1 .. Len(points) |->
        [ x       |-> _normalize_point(points[i]).x,
          y       |-> _normalize_point(points[i]).y,
          penDown |-> _normalize_point(points[i]).penDown ]]

\* job_points without the travel point.
job_points_NoTravel(points) == normalized(points)

\* Lines 168-177: the travel point, then the caller's points.
job_points(points) ==
    IF Len(points) > 0
    THEN << [ x |-> normalized(points)[1].x, y |-> normalized(points)[1].y,
              penDown |-> FALSE ] >> \o normalized(points)
    ELSE normalized(points)

\* n well-formed points: a pen-up point, then pen-down points at (0,1),
\* (1,0), (1,1), ...
UserPoints(n) ==
    [i \in 1 .. n |->
        Point(IF (i \div 2) % 2 = 0 THEN "0" ELSE "1",
              IF i % 2 = 0 THEN "0" ELSE "1",
              IF i = 1 THEN "False" ELSE "True")]

\* ------------------------------------------------------------- telemetry
\* A parsed status payload, by what the sender reads in it:
\*   "none"       no dict (None: no JSON, or JSON that is no object)
\*   "queue"      queue.size is an integer (size, isExecuting)
\*   "idle"       no queue size, status in {idle, ready, stopped}
\*   "busy"       no queue size, status in {busy, running, drawing}
\*   "motorsBusy" no queue size, no known status, a motor reports busy
\*   "unknown"    a dict with none of these
NoPayload == [kind |-> "none", size |-> 0, isExecuting |-> FALSE]
QueuePayload(s, e) == [kind |-> "queue", size |-> s, isExecuting |-> e]
StatusPayload(k) == [kind |-> k, size |-> 0, isExecuting |-> FALSE]

_controller_allows_send(c, data) ==
    IF data.kind = "none" THEN TRUE
    ELSE IF data.kind = "queue" THEN
        IF data.size >= c.controller_queue_capacity THEN FALSE
        ELSE IF data.size >= c.queue_fill_target THEN FALSE
        ELSE IF data.size <= c.queue_low_watermark THEN TRUE
        ELSE IF ~data.isExecuting /\ data.size = 0 THEN TRUE
        ELSE TRUE
    ELSE IF data.kind = "idle" THEN TRUE
    ELSE IF data.kind = "busy" THEN FALSE
    ELSE IF data.kind = "motorsBusy" THEN FALSE
    ELSE TRUE

Min5(a, b, c, d, e) == Min(a, Min(b, Min(c, Min(d, e))))

\* The configured batch size for every batch, the first included.
_determine_chunk_size_BatchSize(c, J, first_batch, payload) ==
    Max(0, Min(J.n_points - J.sent_points, c.batch_size))

\* The queue's free room is not looked at.
_determine_chunk_size_IgnoreAvailable(c, J, first_batch, payload) ==
    LET remaining == J.n_points - J.sent_points
        desired   == Max(Max(c.queue_fill_target - payload.size, 0),
                         c.min_chunk_size)
    IN  IF payload.kind = "queue"
        THEN Min(Min(remaining, desired),
                 Min(c.batch_size, c.max_points_per_request))
        ELSE Min(remaining, Min(Max(c.min_chunk_size, c.batch_size),
                                c.max_points_per_request))

_determine_chunk_size(c, J, first_batch, payload) ==
    LET remaining == J.n_points - J.sent_points
        fallback  == Min(Max(c.min_chunk_size, Min(c.batch_size, remaining)),
                         c.max_points_per_request)
    IN  IF remaining <= 0 THEN 0
        ELSE IF first_batch THEN 1
        ELSE IF payload.kind = "queue" THEN
            LET queue_size == payload.size
                target_queue_size == Min(c.queue_fill_target,
                                         c.controller_queue_capacity)
                available_capacity ==
                    Max(c.controller_queue_capacity - queue_size, 0)
                desired_fill ==
                    IF ~payload.isExecuting /\ queue_size = 0 /\ first_batch
                    THEN target_queue_size
                    ELSE Max(target_queue_size - queue_size, 0)
                desired_points == Max(desired_fill, c.min_chunk_size)
                chunk == Min5(remaining, desired_points, available_capacity,
                              c.batch_size, c.max_points_per_request)
            IN  IF available_capacity <= 0 THEN 0
                ELSE IF chunk <= 0 THEN 0
                ELSE Max(1, chunk)
        ELSE Min(remaining, fallback)

\* _build_payload: the batch is job.points[start .. start+len-1]; what the
\* claims read of the payload is the slice, reset and whether startPosition
\* is present.  A start_position without "penDown" raises KeyError at line 421.
BuildPayloadRaises(J, first_batch) ==
    first_batch /\ J.reset /\ J.start_position = "xy"

\* startPosition and reset in every batch of a job that resets.
_build_payload_EveryBatch(J, start_index, len, first_batch) ==
    [ start         |-> start_index,
      len           |-> len,
      reset         |-> J.reset,
      startPosition |-> J.reset /\ J.start_position # "none" ]

_build_payload(J, start_index, len, first_batch) ==
    [ start         |-> start_index,
      len           |-> len,
      reset         |-> IF first_batch THEN J.reset ELSE FALSE,
      startPosition |-> first_batch /\ J.reset /\ J.start_position # "none" ]

\* ------------------------------------------------------------------ state
VARIABLES
    scope,      \* what the sender's surroundings do in this run: how many
                \* start_job calls install a job, with which arguments, and
                \* what the controller answers (never changes)
    cfg,        \* the PathSender's clamped configuration (set by __init__)
    cur,        \* self._job: index into jobs, 0 for None
    last,       \* self._last_job: index into jobs, 0 for None
    jobs,       \* every PathSendJob created so far, in creation order
    thr,        \* the worker thread of each job: position and locals of _run_job
    telemetry,  \* self._last_status_payload
    call,       \* the cancel_current call in progress (it holds self._lock)
    wire,       \* per job, the batch POSTs started so far: their number and
                \* the last one
    cancel_at,  \* per job, what its worker was doing when cancel_current
                \* set its cancel flag for the first time ("none" before)
    hist,       \* per job, what the outside has seen of it: the number of
                \* POSTs to its cancel_url (cancel_posts) and the number of
                \* idle snapshots status() returned for it (idle_seen),
                \* both counted up to MaxSeen, in the runs whose scope
                \* asks for it (scope.seen); and how often the controller
                \* has taken each point of job.points (accepted), counted
                \* up to MaxSeen, in the runs that ask for it (scope.ctl)
    arg,        \* the argument of a call of one of the functions beside the
                \* sender (path_planner.py, kinematics.py); <<>> in the
                \* runs of the sender
    ret         \* what that call returned; <<>> before it returns

vars ==
    <<scope, cfg, cur, last, jobs, thr, telemetry, call, wire, cancel_at, hist,
      arg, ret>>

JobIds == 1 .. Len(jobs)

NoBatch == [start |-> 0, len |-> 0, reset |-> FALSE, startPosition |-> FALSE]

\* No POST yet.  Of the last POST: its payload and what came back
\* ("inflight" until then).
NoPost == [n |-> 0, batch |-> NoBatch, outcome |-> "none"]

NewThread == [pc |-> "start", first_batch |-> TRUE, elapsed |-> 0,
              errors |-> 0, attempt |-> 0, payload |-> NoBatch]

IdleCall == [pc |-> "idle", job |-> 0, post |-> FALSE]

\* self._lock is held by the cancel_current call between its steps.
LockFree == call.pc \notin {"locked", "marking"}

\* What a status GET can bring: a 404, another request failure (timeout,
\* connection error, other HTTP error status), or a 200 with a body.
StatusOf(code, body) == [code |-> code, body |-> body]

\* What a batch POST can bring: a 2xx response whose body is empty or
\* reports success ("ok"), is no JSON ("ack_malformed") or reports an error,
\* an unknown status or a failure ("ack_error"); an HTTP error status; a
\* connection error; a connect or read timeout.
AllPostResponses ==
    {"ok", "ack_malformed", "ack_error", "http4xx", "http5xx", "conn_error",
     "timeout"}

\* The arguments of a start_job call: n user points, start_position ("none"
\* for None, "full" for a dict with x, y and penDown, "xy" for a dict with x
\* and y only, as app.py's _derive_start_position builds it), reset, and
\* whether status_url and cancel_url are given.
CallWith(points, start, reset, status_url, cancel_url) ==
    [ n |-> Len(points), points |-> points, start |-> start, reset |-> reset,
      status_url |-> status_url, cancel_url |-> cancel_url ]

\* A call with n well-formed points.
CallArgs(n, start, reset, status_url, cancel_url) ==
    CallWith(UserPoints(n), start, reset, status_url, cancel_url)

AllStartArgs ==
    { CallArgs(n, st, r, su, cu) :
        n \in 0 .. MaxPoints, st \in {"none", "full", "xy"}, r \in BOOLEAN,
        su \in BOOLEAN, cu \in BOOLEAN }

\* One job, from start_job to the end of its worker, with every argument (a
\* start_position and a cancel_url are always given) and every answer of the
\* controller.
JobScope(c) ==
    [ jobs   |-> 1,
      seen   |-> FALSE,
      ctl    |-> FALSE,
      args   |-> {a \in AllStartArgs : a.cancel_url /\ a.start # "none"},
      status |-> {StatusOf("404", NoPayload), StatusOf("error", NoPayload)}
                 \cup {StatusOf("200", b) :
                        b \in {NoPayload, StatusPayload("idle"),
                               StatusPayload("busy")}
                              \cup {QueuePayload(q, TRUE) :
                                     q \in {0, c.controller_queue_capacity - 1,
                                            c.controller_queue_capacity}}},
      post   |-> AllPostResponses ]

\* Several jobs one after another on one sender, with fewer arguments and
\* answers.
SenderScope(c) ==
    [ jobs   |-> MaxJobs,
      seen   |-> FALSE,
      ctl    |-> FALSE,
      args   |-> { CallArgs(0, "full", TRUE, TRUE, TRUE),
                   CallArgs(1, "full", TRUE, TRUE, TRUE),
                   CallArgs(1, "full", TRUE, FALSE, TRUE) },
      status |-> {StatusOf("404", NoPayload)}
                 \cup {StatusOf("200", QueuePayload(q, TRUE)) :
                        q \in {c.controller_queue_capacity - 1,
                               c.controller_queue_capacity}},
      post   |-> {"ok", "http4xx"} ]

\* One job with or without its two URLs and its start_position, a controller
\* that answers a batch with 200 or 503, and a count of what the outside sees
\* of the job.
SeenScope(c) ==
    [ jobs   |-> 1,
      seen   |-> TRUE,
      ctl    |-> FALSE,
      args   |-> { CallArgs(n, st, TRUE, su, cu) :
                     n \in {0, 1}, st \in {"none", "full"},
                     su \in BOOLEAN, cu \in BOOLEAN },
      status |-> {StatusOf("404", NoPayload),
                  StatusOf("200", QueuePayload(c.controller_queue_capacity,
                                               TRUE))},
      post   |-> {"ok", "http5xx"} ]

\* The elements a caller's list is made of: two that normalize to a finite
\* point, one with a nan coordinate, one without its x key, two whose
\* coordinate is no number, and one that is no dictionary.
PointElements ==
    { Point("0", "1", "True"), Point("'1'", "0", "absent"),
      Point("nan", "0", "True"),
      Point("absent", "0", "True"), Point("text", "0", "True"),
      Point("0", "None", "True"), NotADict }

\* One job whose point list is any list of up to MaxPoints elements, and a
\* controller without a status endpoint.
PointsScope(c) ==
    [ jobs   |-> 1,
      seen   |-> FALSE,
      ctl    |-> FALSE,
      args   |-> { CallWith(pts, "full", TRUE, TRUE, TRUE) :
                     pts \in UNION {[1 .. n -> PointElements] :
                                       n \in 0 .. MaxPoints} },
      status |-> {StatusOf("404", NoPayload)},
      post   |-> {"ok", "http4xx"} ]

\* Scenario "simple line, empty queue": one job of five user points on a
\* sender with the constructor's defaults, a controller whose queue is
\* always reported empty and not executing, and every batch accepted.
LineScope(c) ==
    [ jobs   |-> 1,
      seen   |-> FALSE,
      ctl    |-> FALSE,
      args   |-> { CallArgs(0, "full", TRUE, TRUE, TRUE),
                   CallArgs(5, "full", TRUE, TRUE, TRUE) },
      status |-> {StatusOf("200", QueuePayload(0, FALSE))},
      post   |-> {"ok"} ]

\* One job of two user points and a controller without a status endpoint
\* that takes every batch it receives; its answer arrives or the request
\* times out.  What the controller has taken is counted.
CtlScope(c) ==
    [ jobs   |-> 1,
      seen   |-> FALSE,
      ctl    |-> TRUE,
      args   |-> { CallArgs(0, "full", TRUE, TRUE, TRUE),
                   CallArgs(2, "full", TRUE, TRUE, TRUE) },
      status |-> {StatusOf("404", NoPayload)},
      post   |-> {"ok", "timeout"} ]

\* One job and a controller that accepts every batch and whose status always
\* permits sending: no status endpoint, no telemetry, status idle, or a
\* queue below the fill target.
AcceptScope(c) ==
    [ jobs   |-> 1,
      seen   |-> FALSE,
      ctl    |-> FALSE,
      args   |-> {a \in AllStartArgs : a.cancel_url /\ a.start # "none"},
      status |-> {StatusOf("404", NoPayload), StatusOf("200", NoPayload),
                  StatusOf("200", StatusPayload("idle"))}
                 \cup {StatusOf("200", QueuePayload(q, TRUE)) :
                        q \in 0 .. c.queue_fill_target - 1},
      post   |-> {"ok"} ]

\* One job with a status URL and a controller whose status endpoint fails in
\* each way a GET can fail, is absent (404), or reports busy; every batch is
\* accepted.
PollScope(c) ==
    [ jobs   |-> 1,
      seen   |-> FALSE,
      ctl    |-> FALSE,
      args   |-> { CallArgs(0, "full", TRUE, TRUE, TRUE),
                   CallArgs(1, "full", TRUE, TRUE, TRUE) },
      status |-> {StatusOf(code, NoPayload) :
                     code \in {"404", "timeout", "conn_error", "http5xx",
                               "http4xx"}}
                 \cup {StatusOf("200", StatusPayload("busy"))},
      post   |-> {"ok"} ]

\* No job yet.
InitSlots ==
    /\ cur = 0 /\ last = 0
    /\ jobs = <<>> /\ thr = <<>> /\ wire = <<>>
    /\ cancel_at = <<>> /\ hist = <<>>

\* No call of a function beside the sender.
NoCall == arg = <<>> /\ ret = <<>>

InitSender ==
    /\ cfg = PathSenderInit(SmallArgs)
    /\ NoCall
    /\ cur = 0
    /\ last = 0
    /\ jobs = <<>>
    /\ thr = <<>>
    /\ telemetry = NoPayload
    /\ call = IdleCall
    /\ wire = <<>>
    /\ cancel_at = <<>>
    /\ hist = <<>>

Init == InitSender /\ scope = SenderScope(cfg)

InitJob == InitSender /\ scope = JobScope(cfg)

InitSeen == InitSender /\ scope = SeenScope(cfg)

InitPoints == InitSender /\ scope = PointsScope(cfg)

InitAccept == InitSender /\ scope = AcceptScope(cfg)

InitPoll == InitSender /\ scope = PollScope(cfg)

\* A sender that has the time to retry a request that timed out.
PatientArgs == [SmallArgs EXCEPT !.send_retry_timeout = 10]

InitCtl ==
    /\ cfg = PathSenderInit(PatientArgs)
    /\ scope = CtlScope(cfg)
    /\ InitSlots /\ NoCall
    /\ telemetry = NoPayload
    /\ call = IdleCall

InitLine ==
    /\ cfg = PathSenderInit(DefaultArgs)
    /\ scope = LineScope(cfg)
    /\ InitSlots /\ NoCall
    /\ telemetry = NoPayload
    /\ call = IdleCall

\* ----------------------------------------------------------- the worker
SetJob(j, J) == jobs' = [jobs EXCEPT ![j] = J]

\* When _run_job leaves its try block its locals are dead.
Goto(j, pc) ==
    thr' = [thr EXCEPT ![j] = IF pc = "finally"
                              THEN [NewThread EXCEPT !.pc = pc]
                              ELSE [@ EXCEPT !.pc = pc]]

\* _run_job line 318-320.
RunStart(j) ==
    /\ thr[j].pc = "start"
    /\ SetJob(j, mark_running(jobs[j]))
    /\ thr' = [thr EXCEPT ![j].pc = "loop", ![j].first_batch = TRUE]
    /\ UNCHANGED <<arg, ret, scope, cfg, hist, cancel_at, cur, last, telemetry, call, wire>>

\* RunLoop with the cancel check made before the while test.
RunLoop_CancelFirst(j) ==
    /\ thr[j].pc = "loop"
    /\ IF jobs[j].cancel_event
       THEN SetJob(j, mark_cancelled(jobs[j])) /\ Goto(j, "finally")
       ELSE IF jobs[j].sent_points < jobs[j].n_points
       THEN UNCHANGED jobs /\ Goto(j, "gate")
       ELSE SetJob(j, mark_complete(jobs[j])) /\ Goto(j, "finally")
    /\ UNCHANGED <<arg, ret, scope, cfg, hist, cancel_at, cur, last, telemetry, call, wire>>

\* The while test (line 322), the cancel check (323-325) and, when the loop
\* is over, lines 369-370.
RunLoop(j) ==
    /\ thr[j].pc = "loop"
    /\ IF jobs[j].sent_points < jobs[j].n_points
       THEN IF jobs[j].cancel_event
            THEN SetJob(j, mark_cancelled(jobs[j])) /\ Goto(j, "finally")
            ELSE UNCHANGED jobs /\ Goto(j, "gate")
       ELSE SetJob(j, mark_complete(jobs[j])) /\ Goto(j, "finally")
    /\ UNCHANGED <<arg, ret, scope, cfg, hist, cancel_at, cur, last, telemetry, call, wire>>

\* Line 327-329: blocked while the pause event is clear and cancel is not set.
RunGate(j) ==
    /\ thr[j].pc = "gate"
    /\ \/ /\ WaitIfPausedTrue(jobs[j])
          /\ UNCHANGED jobs
          /\ Goto(j, "ready")
       \/ /\ WaitIfPausedFalse(jobs[j])
          /\ SetJob(j, mark_cancelled(jobs[j]))
          /\ Goto(j, "finally")
    /\ UNCHANGED <<arg, ret, scope, cfg, hist, cancel_at, cur, last, telemetry, call, wire>>

\* _wait_until_ready up to its loop (lines 560-567).
RunReady(j) ==
    /\ thr[j].pc = "ready"
    /\ IF ~jobs[j].status_url
       THEN /\ Goto(j, "chunk")
            /\ UNCHANGED telemetry
       ELSE /\ thr' = [thr EXCEPT ![j].pc = "poll", ![j].elapsed = 0,
                                  ![j].errors = 0]
            /\ telemetry' = NoPayload
    /\ UNCHANGED <<arg, ret, scope, cfg, hist, cancel_at, cur, last, jobs, call, wire>>

\* JobCancelledError is raised whether or not the job was cancelled.
NotReady_AlwaysCancelled(J) == mark_cancelled(J)

\* _wait_until_ready returned False (lines 331-335 and 371-372).
NotReady(J) ==
    IF J.cancel_event THEN mark_cancelled(J)
    ELSE mark_failed(J, "Controller did not become ready in time")

\* RunPoll with a 404 counted as one more request error.
RunPoll_404IsError(j, r) ==
    /\ thr[j].pc = "poll"
    /\ IF thr[j].elapsed >= cfg.status_timeout \/ jobs[j].cancel_event
       THEN /\ SetJob(j, NotReady(jobs[j]))
            /\ Goto(j, "finally")
            /\ UNCHANGED telemetry
       ELSE /\ UNCHANGED jobs
            /\ IF r.code = "200"
               THEN /\ telemetry' = r.body
                    /\ IF _controller_allows_send(cfg, r.body)
                       THEN Goto(j, "chunk")
                       ELSE thr' = [thr EXCEPT ![j].errors = 0,
                                ![j].elapsed = @ + cfg.status_poll_interval]
               ELSE IF thr[j].errors + 1 >= 3
               THEN /\ telemetry' = NoPayload
                    /\ thr' = [thr EXCEPT ![j].pc = "chunk",
                                          ![j].errors = @ + 1]
               ELSE /\ UNCHANGED telemetry
                    /\ thr' = [thr EXCEPT ![j].errors = @ + 1,
                           ![j].elapsed = @ + cfg.status_poll_interval]
    /\ UNCHANGED <<arg, ret, scope, cfg, hist, cancel_at, cur, last, call, wire>>

\* One turn of the loop of _wait_until_ready (568-600): the loop test, the
\* cancel check, the status GET and its response r.  The worker is at "poll"
\* while it sleeps (600) and while the GET is in flight; the GET and its
\* handling read nothing another thread writes.
RunPoll(j, r) ==
    /\ thr[j].pc = "poll"
    /\ IF thr[j].elapsed >= cfg.status_timeout \/ jobs[j].cancel_event
       THEN /\ SetJob(j, NotReady(jobs[j]))
            /\ Goto(j, "finally")
            /\ UNCHANGED telemetry
       ELSE /\ UNCHANGED jobs
            /\ IF r.code = "404"
               THEN /\ telemetry' = NoPayload
                    /\ Goto(j, "chunk")
               ELSE IF r.code = "200"
               THEN /\ telemetry' = r.body
                    /\ IF _controller_allows_send(cfg, r.body)
                       THEN Goto(j, "chunk")
                       ELSE thr' = [thr EXCEPT ![j].errors = 0,
                                ![j].elapsed = @ + cfg.status_poll_interval]
               ELSE IF thr[j].errors + 1 >= 3
               THEN /\ telemetry' = NoPayload
                    /\ thr' = [thr EXCEPT ![j].pc = "chunk",
                                          ![j].errors = @ + 1]
               ELSE /\ UNCHANGED telemetry
                    /\ thr' = [thr EXCEPT ![j].errors = @ + 1,
                           ![j].elapsed = @ + cfg.status_poll_interval]
    /\ UNCHANGED <<arg, ret, scope, cfg, hist, cancel_at, cur, last, call, wire>>

\* The slice taken at a multiple of the batch size.
BatchSlice_ByBatches(J, chunk_size) ==
    [ start_index |-> J.sent_batches * J.batch_size,
      end_index   |-> Min(J.sent_batches * J.batch_size + chunk_size,
                          J.n_points) ]

\* The slice taken a whole batch_size long, past the end of the list.
BatchSlice_WholeBatch(J, chunk_size) ==
    [ start_index |-> J.sent_points,
      end_index   |-> J.sent_points + J.batch_size ]

\* Lines 343-345: the slice of job.points that makes the batch.
BatchSlice(J, chunk_size) ==
    [ start_index |-> J.sent_points,
      end_index   |-> Min(J.sent_points + chunk_size, J.n_points) ]

\* Lines 337-355 and the start of _post_with_retries (509-510).
RunChunk(j) ==
    LET J == jobs[j]
        chunk_size == _determine_chunk_size(cfg, J, thr[j].first_batch, telemetry)
        start_index == BatchSlice(J, chunk_size).start_index
        end_index == BatchSlice(J, chunk_size).end_index
        future_batches == CeilDiv(J.n_points - end_index, chunk_size)
    IN  /\ thr[j].pc = "chunk"
        /\ IF chunk_size <= 0
           THEN \* line 338-341: sleep one poll interval, then continue
                UNCHANGED jobs /\ Goto(j, "loop")
           ELSE IF end_index <= start_index
           THEN \* line 346-348: break, then line 369
                /\ SetJob(j, IF J.sent_points >= J.n_points
                             THEN mark_complete(J) ELSE J)
                /\ Goto(j, "finally")
           ELSE IF BuildPayloadRaises(J, thr[j].first_batch)
           THEN \* KeyError in _build_payload, caught at line 375
                /\ SetJob(j, mark_failed(
                       [J EXCEPT !.total_batches =
                            Max(@, J.sent_batches + 1 + future_batches)],
                       "'penDown'"))
                /\ Goto(j, "finally")
           ELSE /\ SetJob(j, [J EXCEPT !.total_batches =
                                  Max(@, J.sent_batches + 1 + future_batches)])
                /\ thr' = [thr EXCEPT
                       ![j].pc = "send", ![j].elapsed = 0, ![j].attempt = 0,
                       ![j].payload = _build_payload(J, start_index,
                                          end_index - start_index,
                                          thr[j].first_batch)]
        /\ UNCHANGED <<arg, ret, scope, cfg, hist, cancel_at, cur, last, telemetry, call, wire>>

\* _post_with_retries, lines 513-519: the cancel check and the pause gate.
\* The worker is at "send" while it sleeps between two attempts (544) and
\* while it is blocked on the gate (517); a worker blocked there that sees
\* the cancel flag (wait_if_paused returns False, 518-519) ends as one
\* stopped by the cancel check does, with mark_cancelled (371-372).
RunSend(j) ==
    /\ thr[j].pc = "send"
    /\ \/ /\ jobs[j].cancel_event
          /\ SetJob(j, mark_cancelled(jobs[j]))
          /\ Goto(j, "finally")
       \/ /\ ~jobs[j].cancel_event
          /\ WaitIfPausedTrue(jobs[j])
          /\ Goto(j, "gated")
          /\ UNCHANGED jobs
    /\ UNCHANGED <<arg, ret, scope, cfg, hist, cancel_at, cur, last, telemetry, call, wire>>

\* Time goes by while the worker is held at the gate of line 517, and the
\* deadline of line 509 is not suspended: the job stays paused until the
\* deadline has passed.
GateWait(j) ==
    /\ thr[j].pc = "send"
    /\ ~jobs[j].pause_event /\ ~jobs[j].cancel_event
    /\ thr[j].elapsed <= cfg.send_retry_timeout
    /\ thr' = [thr EXCEPT ![j].elapsed = cfg.send_retry_timeout + 1]
    /\ UNCHANGED <<arg, ret, scope, cfg, hist, cancel_at, cur, last, jobs, telemetry, call, wire>>

\* Lines 521-530: the gate is behind, the POST is sent.
RunPost(j) ==
    /\ thr[j].pc = "gated"
    /\ thr' = [thr EXCEPT ![j].pc = "posting", ![j].attempt = @ + 1]
    /\ wire' = [wire EXCEPT ![j] =
           [ n       |-> @.n + 1,
             batch   |-> thr[j].payload,
             outcome |-> "inflight" ]]
    /\ UNCHANGED <<arg, ret, scope, cfg, hist, cancel_at, cur, last, jobs, telemetry, call>>

_is_retryable_error_Any(r) == TRUE

_is_retryable_error(r) == r \in {"timeout", "conn_error", "http5xx"}

\* raise_for_status (531) raises for an HTTP error status.
IsRequestException(r) == r \in {"http4xx", "http5xx", "conn_error", "timeout"}

AckRaises_Never(r) == FALSE

\* _validate_controller_ack raises RuntimeError for an error field, an
\* unknown status or success = false; a body that is no JSON passes.
AckRaises(r) == r = "ack_error"

\* A request that times out has lasted self.timeout.
Duration(r) == IF r = "timeout" THEN cfg.timeout ELSE 0

SetOutcome(j, o) ==
    wire' = [wire EXCEPT ![j].outcome = o]

\* Whether the controller has taken the batch of a POST that ended with r: it
\* has when it answers 2xx without reporting an error, it has not when it
\* answers with an error, and either is possible when the answer never
\* arrives (a read timeout, a connection lost after the request was sent).
ControllerTook(r) ==
    IF r \in {"ok", "ack_malformed"} THEN {TRUE}
    ELSE IF r \in {"timeout", "conn_error"} THEN BOOLEAN
    ELSE {FALSE}

\* The controller takes the points of batch b once more.
Take(accepted, b) ==
    [i \in DOMAIN accepted |->
        IF b.start < i /\ i <= b.start + b.len
        THEN Min(MaxSeen, accepted[i] + 1) ELSE accepted[i]]

\* Lines 531-544 and 362-367: the response to the batch POST.
RunPostResponse(j, r) ==
    LET J == jobs[j]
        now == thr[j].elapsed + Duration(r)
    IN  /\ thr[j].pc = "posting"
        /\ IF IsRequestException(r)
           THEN IF ~_is_retryable_error(r)
                   \/ now + cfg.send_retry_interval > cfg.send_retry_timeout
                THEN /\ SetJob(j, mark_failed(J, r))
                     /\ Goto(j, "finally")
                     /\ SetOutcome(j, r)
                ELSE /\ thr' = [thr EXCEPT ![j].pc = "send",
                            ![j].elapsed = now + cfg.send_retry_interval]
                     /\ SetOutcome(j, r)
                     /\ UNCHANGED jobs
           ELSE IF AckRaises(r)
           THEN /\ SetJob(j, mark_failed(J, r))
                /\ Goto(j, "finally")
                /\ SetOutcome(j, r)
           ELSE /\ SetJob(j, [J EXCEPT
                       !.sent_batches = @ + 1,
                       !.sent_points = @ + thr[j].payload.len,
                       !.total_batches = Max(@, J.sent_batches + 1)])
                /\ thr' = [thr EXCEPT ![j].pc = "loop", ![j].elapsed = 0,
                                      ![j].first_batch = FALSE]
                /\ SetOutcome(j, r)
        /\ \E took \in (IF scope.ctl THEN ControllerTook(r) ELSE {FALSE}) :
              hist' = IF took
                      THEN [hist EXCEPT ![j].accepted =
                                            Take(@, thr[j].payload)]
                      ELSE hist
        /\ UNCHANGED <<arg, ret, scope, cfg, cancel_at, cur, last, telemetry, call>>

\* The finally block (377-381), under self._lock.
RunFinally(j) ==
    /\ thr[j].pc = "finally"
    /\ LockFree
    /\ last' = j
    /\ cur' = IF jobs[j].status \notin {"pending", "running"} THEN 0 ELSE cur
    /\ Goto(j, "done")
    /\ UNCHANGED <<arg, ret, scope, cfg, hist, cancel_at, jobs, telemetry, call, wire>>

Worker(j) ==
    \/ RunStart(j)
    \/ RunLoop(j)
    \/ RunGate(j)
    \/ RunReady(j)
    \/ \E r \in scope.status : RunPoll(j, r)
    \/ RunChunk(j)
    \/ RunSend(j)
    \/ GateWait(j)
    \/ RunPost(j)
    \/ \E r \in scope.post : RunPostResponse(j, r)
    \/ RunFinally(j)

\* ------------------------------------------------------ the coordinator
\* What the status GET of _get_controller_state can bring: a request that
\* fails, an HTTP error status, a body that is no JSON object, an object
\* without a "state" object, an object with one.
StateReplies == {"conn_error", "http_error", "not_json", "no_state", "state"}

\* _get_controller_state always returning a state.
_get_controller_state_Always(status_url, r) == "state"

\* _get_controller_state (295-314): the controller's position as a dict with
\* x, y and penDown ("state"), or None.
_get_controller_state(status_url, r) ==
    IF ~status_url THEN "None"
    ELSE IF r \in {"conn_error", "http_error"} THEN "None"
    ELSE IF r = "not_json" THEN "None"
    ELSE IF r = "no_state" THEN "None"
    ELSE "state"

\* Lines 161-187: ValueError for an empty list, or when no start_position is
\* given and _get_controller_state returns None (no status URL, a failed or
\* unusable status response: state_read is whether the GET brings a state).
StartJobError(a, state_read) ==
    IF Len(a.points) = 0 THEN "ValueError"
    ELSE IF NormalizeRaises(a.points) # "None" THEN NormalizeRaises(a.points)
    ELSE IF a.start = "none" /\ ~(a.status_url /\ state_read)
    THEN "ValueError"
    ELSE "None"

StartJobRaises(a, state_read) == StartJobError(a, state_read) # "None"

\* Lines 166-199: the travel point is prepended, the start is derived.
BuildJob(a) ==
    NewJob(cfg, job_points(a.points),
           IF a.start = "none" THEN "state" ELSE a.start,
           a.reset, a.status_url, a.cancel_url)

\* Line 203: the slot holds a job that is no longer active.
StaleSlot == cur # 0 /\ jobs[cur].status \notin ACTIVE_JOB_STATUSES

Busy_Never == FALSE

\* Line 206: the slot holds an active job.
Busy == cur # 0 /\ ~StaleSlot /\ jobs[cur].status \in ACTIVE_JOB_STATUSES

\* A call that raises ValueError changes nothing.
StartJobInvalid ==
    IF \E c \in scope.args \X BOOLEAN : StartJobRaises(c[1], c[2])
    THEN UNCHANGED vars
    ELSE FALSE

\* Line 207: a call that raises PathSenderBusyError changes nothing.
StartJobBusy ==
    /\ LockFree
    /\ Busy
    /\ IF \E c \in scope.args \X BOOLEAN : ~StartJobRaises(c[1], c[2])
       THEN UNCHANGED vars
       ELSE FALSE

NoHist == [cancel_posts |-> 0, idle_seen |-> 0, accepted |-> <<>>]

\* Nothing seen yet of a job with these points.
NewHist(points) ==
    IF scope.ctl
    THEN [NoHist EXCEPT !.accepted = [i \in 1 .. Len(points) |-> 0]]
    ELSE NoHist

\* Lines 201-212: the job is installed and its worker thread started.
StartJob(a, state_read) ==
    /\ Len(jobs) < scope.jobs
    /\ LockFree
    /\ ~Busy
    /\ ~StartJobRaises(a, state_read)
    /\ last' = IF StaleSlot THEN cur ELSE last
    /\ cur' = Len(jobs) + 1
    /\ jobs' = Append(jobs, BuildJob(a))
    /\ thr' = Append(thr, NewThread)
    /\ wire' = Append(wire, NoPost)
    /\ cancel_at' = Append(cancel_at, "none")
    /\ hist' = Append(hist, NewHist(BuildJob(a).points))
    /\ UNCHANGED <<arg, ret, scope, cfg, telemetry, call>>

\* What the worker of job j is doing: the four waits of _run_job, or
\* something else.
WaitState(j) ==
    CASE thr[j].pc = "gate" /\ ~jobs[j].pause_event -> "gate"
      [] thr[j].pc = "send" /\ ~jobs[j].pause_event -> "gate"
      [] thr[j].pc = "send" /\ thr[j].attempt > 0   -> "retry_sleep"
      [] thr[j].pc = "poll"                         -> "poll"
      [] thr[j].pc = "posting"                      -> "http"
      [] OTHER                                      -> "other"

\* cancel_current, lines 217-221 and 224-227.  The worker writes job.status
\* without the lock, so it can run between the test of line 219, the test
\* of line 222 and the write of line 223: the call is three steps under the
\* lock.
CancelBegin ==
    /\ call.pc = "idle"
    /\ LockFree
    /\ IF cur # 0 /\ jobs[cur].status \in ACTIVE_JOB_STATUSES
       THEN /\ SetJob(cur, request_cancel(jobs[cur]))
            /\ call' = [pc |-> "locked", job |-> cur,
                        post |-> jobs[cur].cancel_url]
            /\ cancel_at' = [cancel_at EXCEPT ![cur] =
                                IF @ = "none" THEN WaitState(cur) ELSE @]
            /\ UNCHANGED last
       ELSE /\ last' = IF last # 0 /\ jobs[last].status \in FINAL_JOB_STATUSES
                       THEN 0 ELSE last
            /\ UNCHANGED <<jobs, call, cancel_at>>
    /\ UNCHANGED <<arg, ret, scope, cfg, hist, cur, thr, telemetry, wire>>

\* After the cancel call's work on the job: lines 224-227, the lock is
\* released.
CancelRelease ==
    IF call.post THEN [call EXCEPT !.pc = "post"] ELSE IdleCall

\* Line 222: the test of the status.
CancelTest ==
    /\ call.pc = "locked"
    /\ call' = IF jobs[call.job].status \notin {"cancelled", "failed"}
               THEN [call EXCEPT !.pc = "marking"]
               ELSE CancelRelease
    /\ UNCHANGED <<arg, ret, scope, cfg, hist, cancel_at, cur, last, jobs, thr, telemetry, wire>>

\* Line 223: the write of the status.
CancelMark ==
    /\ call.pc = "marking"
    /\ SetJob(call.job, [jobs[call.job] EXCEPT !.status = "cancelling"])
    /\ call' = CancelRelease
    /\ UNCHANGED <<arg, ret, scope, cfg, hist, cancel_at, cur, last, thr, telemetry, wire>>

\* Lines 229-234: the controller's cancel endpoint is POSTed, outside the lock.
CancelPost ==
    /\ call.pc = "post"
    /\ call' = IdleCall
    /\ hist' = IF scope.seen
               THEN [hist EXCEPT ![call.job].cancel_posts = Min(MaxSeen, @ + 1)]
               ELSE hist
    /\ UNCHANGED <<arg, ret, scope, cfg, cancel_at, cur, last, jobs, thr, telemetry, wire>>

\* pause_current, lines 236-241.
PauseCurrent ==
    /\ LockFree
    /\ IF cur # 0 /\ jobs[cur].status \in {"pending", "running"}
       THEN SetJob(cur, pause(jobs[cur]))
       ELSE UNCHANGED jobs
    /\ UNCHANGED <<arg, ret, scope, cfg, hist, cancel_at, cur, last, thr, telemetry, call, wire>>

\* resume_current, lines 243-248.
ResumeCurrent ==
    /\ LockFree
    /\ IF cur # 0 /\ jobs[cur].status \in {"pending", "running"}
       THEN SetJob(cur, resume(jobs[cur]))
       ELSE UNCHANGED jobs
    /\ UNCHANGED <<arg, ret, scope, cfg, hist, cancel_at, cur, last, thr, telemetry, call, wire>>

\* What status() returns (250-275): the serialized job in the slot or in
\* the last-job slot, the idle snapshot of a final last job, or None.
StatusReturn ==
    LET previous == IF StaleSlot THEN cur ELSE last
    IN  IF cur # 0 /\ jobs[cur].status \in ACTIVE_JOB_STATUSES
        THEN [kind |-> "job", job |-> cur]
        ELSE IF previous = 0
        THEN [kind |-> "None", job |-> 0]
        ELSE IF jobs[previous].status \in FINAL_JOB_STATUSES
        THEN [kind |-> "idle", job |-> previous]
        ELSE [kind |-> "job", job |-> previous]

\* status(), lines 250-275: what it does to the two slots.
Status ==
    LET previous == IF StaleSlot THEN cur ELSE last
    IN  /\ LockFree
        /\ IF cur # 0 /\ jobs[cur].status \in ACTIVE_JOB_STATUSES
           THEN UNCHANGED <<cur, last>>
           ELSE /\ cur' = IF StaleSlot THEN 0 ELSE cur
                /\ last' = IF previous # 0
                              /\ jobs[previous].status \in FINAL_JOB_STATUSES
                           THEN 0 ELSE previous
        /\ hist' = IF scope.seen /\ StatusReturn.kind = "idle"
                   THEN [hist EXCEPT ![StatusReturn.job].idle_seen =
                                         Min(MaxSeen, @ + 1)]
                   ELSE hist
        /\ UNCHANGED <<arg, ret, scope, cfg, cancel_at, jobs, thr, telemetry, call, wire>>

Next ==
    \/ \E j \in JobIds : Worker(j)
    \/ StartJobInvalid
    \/ StartJobBusy
    \/ \E a \in scope.args, r \in StateReplies :
          StartJob(a, _get_controller_state(a.status_url, r) # "None")
    \/ CancelBegin
    \/ CancelTest
    \/ CancelMark
    \/ CancelPost
    \/ PauseCurrent
    \/ ResumeCurrent
    \/ Status

Spec == Init /\ [][Next]_vars

SpecJob == InitJob /\ [][Next]_vars

SpecSeen == InitSeen /\ [][Next]_vars

SpecPoints == InitPoints /\ [][Next]_vars

SpecLine == InitLine /\ [][Next]_vars

SpecCtl == InitCtl /\ [][Next]_vars

\* The worker thread and the cancel_current call, once started, run on.
FairJob ==
    /\ SpecJob
    /\ WF_vars(1 \in JobIds /\ Worker(1))
    /\ WF_vars(CancelTest)
    /\ WF_vars(CancelMark)

SpecPoll == InitPoll /\ [][Next]_vars

\* The same with a controller that accepts everything.
FairAccept ==
    /\ InitAccept /\ [][Next]_vars
    /\ WF_vars(1 \in JobIds /\ Worker(1))
    /\ WF_vars(CancelTest)
    /\ WF_vars(CancelMark)

\* ------------------------------------------------ path_planner.py
\* The planner's points are pairs of integers (millimetres); the points it
\* puts between them are fractions.
MaxSegments == 2    \* segments in the list handed to plan_pen_aware_path
MaxSegLen == 2      \* points in a segment
GridPoints == {<<0, 0>>, <<0, 1>>, <<3, 0>>, <<3, 4>>}

Frac(n, d) == [num |-> n, den |-> d]

\* One entry (x, y, pen_down) of the planned path.
Entry(x, y, pen_down) == [x |-> x, y |-> y, pen_down |-> pen_down]

At(p, pen_down) == Entry(Frac(p[1], 1), Frac(p[2], 1), pen_down)

\* The square of math.hypot(b - a).
Dist2(a, b) == (b[1] - a[1]) * (b[1] - a[1]) + (b[2] - a[2]) * (b[2] - a[2])

\* max(1, int(math.ceil(dist / step_mm))): the least n >= 1 with
\* n * step_mm >= dist.
Steps(dist2, step_mm) ==
    CHOOSE n \in 1 .. dist2 + 1 :
        /\ n * n * step_mm * step_mm >= dist2
        /\ \A k \in 1 .. n - 1 : k * k * step_mm * step_mm < dist2

\* a + d * (s / steps), a itself for s = 0 or d = 0.
Along(a, d, s, steps) ==
    IF s = 0 \/ d = 0 THEN Frac(a, 1) ELSE Frac(a * steps + d * s, steps)

\* interpolate_line without the point of a pen-up travel.
interpolate_line_NoTravel(a, b, pen_down, step_mm) ==
    IF Dist2(a, b) = 0 THEN <<At(a, pen_down)>>
    ELSE IF ~pen_down THEN <<>>
    ELSE [s \in 1 .. Steps(Dist2(a, b), step_mm) |->
             Entry(Along(a[1], b[1] - a[1], s - 1, Steps(Dist2(a, b), step_mm)),
                   Along(a[2], b[2] - a[2], s - 1, Steps(Dist2(a, b), step_mm)),
                   pen_down)]

\* interpolate_line (59-77): the points from a towards b, b excluded, when
\* the pen is down; b alone when the pen is up.
interpolate_line(a, b, pen_down, step_mm) ==
    IF Dist2(a, b) = 0 THEN <<At(a, pen_down)>>
    ELSE IF ~pen_down THEN <<At(b, pen_down)>>
    ELSE [s \in 1 .. Steps(Dist2(a, b), step_mm) |->
             Entry(Along(a[1], b[1] - a[1], s - 1, Steps(Dist2(a, b), step_mm)),
                   Along(a[2], b[2] - a[2], s - 1, Steps(Dist2(a, b), step_mm)),
                   pen_down)]

\* Lines 109-112: the segment drawn pen-down from its i-th point on.
RECURSIVE DrawSegment(_, _, _)
DrawSegment(seg, i, step_mm) ==
    IF i >= Len(seg) THEN <<At(seg[Len(seg)], TRUE)>>
    ELSE interpolate_line(seg[i], seg[i + 1], TRUE, step_mm)
             \o DrawSegment(seg, i + 1, step_mm)

\* Lines 89-113: the loop over the segments from the k-th on; current_pos
\* is <<>> for None and <<p>> for the point p.
RECURSIVE PlanSegments(_, _, _, _, _)
PlanSegments(segments, k, current_pos, pen_up_threshold_mm, step_mm) ==
    IF k > Len(segments) THEN <<>>
    ELSE IF Len(segments[k]) = 0
    THEN PlanSegments(segments, k + 1, current_pos, pen_up_threshold_mm, step_mm)
    ELSE LET seg == segments[k]
             travel ==
                 IF current_pos = <<>> THEN <<At(seg[1], FALSE)>>
                 ELSE interpolate_line(
                          current_pos[1], seg[1],
                          Dist2(current_pos[1], seg[1])
                              < pen_up_threshold_mm * pen_up_threshold_mm,
                          step_mm)
         IN  travel \o DrawSegment(seg, 1, step_mm)
                 \o PlanSegments(segments, k + 1, <<seg[Len(seg)]>>,
                                 pen_up_threshold_mm, step_mm)

\* plan_pen_aware_path (39-115) for a list of segments.
plan_pen_aware_path(path, pen_up_threshold_mm, step_mm) ==
    PlanSegments(path, 1, <<>>, pen_up_threshold_mm, step_mm)

SegmentsOf(n) == UNION {[1 .. m -> GridPoints] : m \in 1 .. n}

\* The calls of plan_pen_aware_path: up to MaxSegments segments of up to
\* MaxSegLen grid points, a threshold of 1 or 2 mm and a step of 2 mm.
PlanCalls ==
    { [ fn |-> "plan_pen_aware_path", path |-> path,
        pen_up_threshold_mm |-> t, step_mm |-> 2 ] :
        path \in UNION {[1 .. m -> SegmentsOf(MaxSegLen)] : m \in 1 .. MaxSegments},
        t \in {1, 2} }

\* The sender is idle while the functions beside it are called.
IdleSender ==
    /\ cfg = PathSenderInit(DefaultArgs)
    /\ scope = LineScope(cfg)
    /\ InitSlots
    /\ telemetry = NoPayload
    /\ call = IdleCall

InitPlan == IdleSender /\ arg \in PlanCalls /\ ret = <<>>

\* The call returns.
PlanPenAwarePath ==
    /\ arg.fn = "plan_pen_aware_path" /\ ret = <<>>
    /\ ret' = plan_pen_aware_path(arg.path, arg.pen_up_threshold_mm, arg.step_mm)
    /\ UNCHANGED <<arg, scope, cfg, cur, last, jobs, thr, telemetry, call, wire,
                   cancel_at, hist>>

NextPlan == PlanPenAwarePath

SpecPlan == InitPlan /\ [][NextPlan]_vars

\* ------------------------------------------------------ kinematics.py
\* Python's float is the IEEE 754 double: 53 significant bits, every
\* operation rounded to nearest, ties to even.  A double is modelled exactly,
\* as sign * m * 2^e with m a natural number of any length, kept as the
\* sequence of its digits in base 2^14, least significant first and without
\* leading zeros (<<>> is 0).  Exponents stay far from the format's limits.
Limb == 2 ^ 14

MantissaBits == 53

Pow2(n) == 2 ^ n

\* The natural number n < 2^31 as a sequence of digits.
RECURSIVE Big(_)
Big(n) == IF n = 0 THEN <<>> ELSE <<n % Limb>> \o Big(n \div Limb)

RECURSIVE Trim(_)
Trim(a) ==
    IF a = <<>> THEN a
    ELSE IF a[Len(a)] = 0 THEN Trim(SubSeq(a, 1, Len(a) - 1))
    ELSE a

Digit(a, i) == IF i <= Len(a) THEN a[i] ELSE 0

\* a + b + carry, from digit i on.
RECURSIVE AddFrom(_, _, _, _)
AddFrom(a, b, i, carry) ==
    IF i > Len(a) /\ i > Len(b)
    THEN IF carry = 0 THEN <<>> ELSE <<carry>>
    ELSE LET t == Digit(a, i) + Digit(b, i) + carry
         IN  <<t % Limb>> \o AddFrom(a, b, i + 1, t \div Limb)

BigAdd(a, b) == AddFrom(a, b, 1, 0)

\* a - b - borrow for a >= b, from digit i on.
RECURSIVE SubFrom(_, _, _, _)
SubFrom(a, b, i, borrow) ==
    IF i > Len(a) THEN <<>>
    ELSE LET t == Digit(a, i) - Digit(b, i) - borrow
         IN  IF t < 0
             THEN <<t + Limb>> \o SubFrom(a, b, i + 1, 1)
             ELSE <<t>> \o SubFrom(a, b, i + 1, 0)

BigSub(a, b) == Trim(SubFrom(a, b, 1, 0))

\* The comparison of a and b from digit i down: -1, 0 or 1.
RECURSIVE CmpFrom(_, _, _)
CmpFrom(a, b, i) ==
    IF i = 0 THEN 0
    ELSE IF a[i] < b[i] THEN -1
    ELSE IF a[i] > b[i] THEN 1
    ELSE CmpFrom(a, b, i - 1)

BigCmp(a, b) ==
    IF Len(a) < Len(b) THEN -1
    ELSE IF Len(a) > Len(b) THEN 1
    ELSE CmpFrom(a, b, Len(a))

\* a * k + carry for a digit k, from digit i on.
RECURSIVE MulDigitFrom(_, _, _, _)
MulDigitFrom(a, k, i, carry) ==
    IF i > Len(a)
    THEN IF carry = 0 THEN <<>> ELSE <<carry>>
    ELSE LET t == a[i] * k + carry
         IN  <<t % Limb>> \o MulDigitFrom(a, k, i + 1, t \div Limb)

MulDigit(a, k) == IF k = 0 THEN <<>> ELSE MulDigitFrom(a, k, 1, 0)

Zeros(n) == [i \in 1 .. n |-> 0]

\* a * b, from digit i of b on.
RECURSIVE MulFrom(_, _, _)
MulFrom(a, b, i) ==
    IF i > Len(b) THEN <<>>
    ELSE LET rest == MulFrom(a, b, i + 1)
         IN  BigAdd(MulDigit(a, b[i]), IF rest = <<>> THEN <<>> ELSE <<0>> \o rest)

BigMul(a, b) == IF a = <<>> THEN <<>> ELSE Trim(MulFrom(a, b, 1))

\* a * 2^s.
Shl(a, s) ==
    IF a = <<>> THEN a
    ELSE Zeros(s \div 14) \o MulDigit(a, Pow2(s % 14))

\* floor(a / 2^s).
Shr(a, s) ==
    LET n == s \div 14
        r == s % 14
    IN  IF n >= Len(a) THEN <<>>
        ELSE Trim([i \in 1 .. Len(a) - n |->
                     (a[i + n] \div Pow2(r))
                       + (Digit(a, i + n + 1) % Pow2(r)) * Pow2(14 - r)])

\* The number of bits of a digit, and of a.
DigitBits(d) == CHOOSE n \in 0 .. 14 : d < Pow2(n) /\ (n = 0 \/ d >= Pow2(n - 1))

BitLen(a) == IF a = <<>> THEN 0 ELSE 14 * (Len(a) - 1) + DigitBits(a[Len(a)])

\* Bit i of a (bit 0 is the least significant).
Bit(a, i) == (Digit(a, i \div 14 + 1) \div Pow2(i % 14)) % 2

IsOdd(a) == a # <<>> /\ a[1] % 2 = 1

\* Long division in base 2, one bit of n at a time.  st is the quotient and
\* the remainder of floor(n / 2^(i+1)) by d, the result those of
\* floor(n / 2^i).
DivStep(n, d, st, i) ==
    LET r == BigAdd(Shl(st.rem, 1), Big(Bit(n, i)))
    IN  IF BigCmp(r, d) >= 0
        THEN [quot |-> BigAdd(Shl(st.quot, 1), <<1>>), rem |-> BigSub(r, d)]
        ELSE [quot |-> Shl(st.quot, 1), rem |-> r]

\* TLC evaluates the argument of an operator where it is first used, which
\* nests the evaluation of a long chain of steps as deep as the chain is
\* long.  Evaluated(v) is true of every value, and makes TLC evaluate v.
Evaluated(v) == v = v

\* The steps for the bits hi down to lo, the range halved at each call.
RECURSIVE DivBits(_, _, _, _, _)
DivBits(n, d, st, hi, lo) ==
    LET mid   == (hi + lo) \div 2
        upper == DivBits(n, d, st, hi, mid + 1)
    IN  IF hi < lo THEN st
        ELSE IF hi = lo THEN DivStep(n, d, st, hi)
        ELSE IF Evaluated(upper) THEN DivBits(n, d, upper, mid, lo)
        ELSE st

\* The bits of n from bit top up make a number below d.
BigDivMod(n, d) ==
    LET top == BitLen(n) - BitLen(d) + 1
    IN  IF BitLen(n) < BitLen(d) THEN [quot |-> <<>>, rem |-> n]
        ELSE DivBits(n, d, [quot |-> <<>>, rem |-> Shr(n, top)], top - 1, 0)

\* The integer square root of n, one bit of the root at a time.
SqrtStep(n, root, i) ==
    LET try == BigAdd(root, Shl(<<1>>, i))
    IN  IF BigCmp(BigMul(try, try), n) <= 0 THEN try ELSE root

RECURSIVE SqrtBits(_, _, _, _)
SqrtBits(n, root, hi, lo) ==
    LET mid   == (hi + lo) \div 2
        upper == SqrtBits(n, root, hi, mid + 1)
    IN  IF hi < lo THEN root
        ELSE IF hi = lo THEN SqrtStep(n, root, hi)
        ELSE IF Evaluated(upper) THEN SqrtBits(n, upper, mid, lo)
        ELSE root

BigSqrt(n) == SqrtBits(n, <<>>, BitLen(n) \div 2, 0)

\* ------------------------------------------------------------ doubles
Float(sign, m, e) == [sign |-> sign, m |-> m, e |-> e]

Zero == Float(1, <<>>, 0)

FromInt(n) == IF n < 0 THEN Float(-1, Big(-n), 0) ELSE Float(1, Big(n), 0)

\* The double nearest to sign * m * 2^e (ties to even); inexact says that
\* the exact value is above m * 2^e by less than 2^e.
Round(sign, m, e, inexact) ==
    LET shift == BitLen(m) - MantissaBits
        q     == Shr(m, shift)
        rest  == BigSub(m, Shl(q, shift))
        half  == Shl(<<1>>, shift - 1)
        up    == \/ BigCmp(rest, half) > 0
                 \/ BigCmp(rest, half) = 0 /\ (inexact \/ IsOdd(q))
    IN  IF m = <<>> THEN Zero
        ELSE IF shift <= 0 THEN Float(sign, m, e)
        ELSE Float(sign, IF up THEN BigAdd(q, <<1>>) ELSE q, e + shift)

FNeg(a) == IF a.m = <<>> THEN a ELSE Float(-a.sign, a.m, a.e)

FMul(a, b) == Round(a.sign * b.sign, BigMul(a.m, b.m), a.e + b.e, FALSE)

\* a and b brought to the same exponent.
Aligned(a, b) ==
    LET e == IF a.e <= b.e THEN a.e ELSE b.e
    IN  [e |-> e, ma |-> Shl(a.m, a.e - e), mb |-> Shl(b.m, b.e - e)]

\* The exact sum, not rounded.
ExactAdd(a, b) ==
    LET al == Aligned(a, b)
    IN  IF a.m = <<>> THEN b
        ELSE IF b.m = <<>> THEN a
        ELSE IF a.sign = b.sign THEN Float(a.sign, BigAdd(al.ma, al.mb), al.e)
        ELSE IF BigCmp(al.ma, al.mb) = 0 THEN Zero
        ELSE IF BigCmp(al.ma, al.mb) > 0
        THEN Float(a.sign, BigSub(al.ma, al.mb), al.e)
        ELSE Float(b.sign, BigSub(al.mb, al.ma), al.e)

FAdd(a, b) ==
    LET s == ExactAdd(a, b)
    IN  Round(s.sign, s.m, s.e, FALSE)

FSub(a, b) == FAdd(a, FNeg(b))

\* a / b for b # 0: the quotient is taken to 3 bits more than a double has.
FDiv(a, b) ==
    LET k  == MantissaBits + 3 + BitLen(b.m) - BitLen(a.m)
        kk == IF k > 0 THEN k ELSE 0
        dm == BigDivMod(Shl(a.m, kk), b.m)
    IN  IF a.m = <<>> THEN Zero
        ELSE Round(a.sign * b.sign, dm.quot, a.e - b.e - kk, dm.rem # <<>>)

\* The square root of m * 2^e >= 0, rounded: m is shifted to 2 * 55 bits or
\* more and an even exponent.
SqrtOf(m, e) ==
    LET k0 == 2 * (MantissaBits + 2) - BitLen(m)
        k1 == IF k0 > 0 THEN k0 ELSE 0
        k  == IF (e - k1) % 2 = 0 THEN k1 ELSE k1 + 1
        n  == Shl(m, k)
        root == BigSqrt(n)
    IN  IF m = <<>> THEN Zero
        ELSE Round(1, root, (e - k) \div 2, BigCmp(BigMul(root, root), n) # 0)

FSqrt(a) == SqrtOf(a.m, a.e)

\* math.hypot(a, b): the square root of the exact a^2 + b^2, rounded once.
FHypot(a, b) ==
    LET s == ExactAdd(Float(1, BigMul(a.m, a.m), 2 * a.e),
                      Float(1, BigMul(b.m, b.m), 2 * b.e))
    IN  SqrtOf(s.m, s.e)

\* a >= b, and max(0.0, a).
FGe(a, b) == ExactAdd(a, FNeg(b)).sign = 1

FMax0(a) == IF a.sign = 1 THEN a ELSE Zero

FAbs(a) == Float(1, a.m, a.e)

\* a < b.
FLt(a, b) ==
    LET d == ExactAdd(a, FNeg(b))
    IN  d.sign = -1 /\ d.m # <<>>

\* The test's abs(a - b) < 1e-6.
Close(a, b) == FLt(FAbs(FSub(a, b)), FDiv(FromInt(1), FromInt(1000000)))

\* Polargraph.__init__: the motors are the two top corners of the board.
Polargraph(board_width_mm, board_height_mm) ==
    [width       |-> FromInt(board_width_mm),
     height      |-> FromInt(board_height_mm),
     left_motor  |-> [x |-> Zero, y |-> Zero],
     right_motor |-> [x |-> FromInt(board_width_mm), y |-> Zero]]

\* The two cable lengths of the point (x, y).
lengths_for_xy(self, x, y) ==
    [lx |-> FHypot(FSub(x, self.left_motor.x), FSub(y, self.left_motor.y)),
     rx |-> FHypot(FSub(x, self.right_motor.x), FSub(y, self.right_motor.y))]

\* The literal 1e-9 of the solvability test.
Tolerance == FDiv(FromInt(1), FromInt(1000000000))

\* xy_from_lengths, from its last statement to its first; every operation is
\* rounded as Python rounds it.
NoIntersection == [raises |-> "ValueError", x |-> Zero, y |-> Zero]

\* Of the two intersection points (xm + rx, ym + ry) and (xm - rx, ym - ry),
\* the one with the larger y.
LowerSolution(xm, ym, rx, ry) ==
    IF FGe(FAdd(ym, ry), FSub(ym, ry))
    THEN [raises |-> "None", x |-> FAdd(xm, rx), y |-> FAdd(ym, ry)]
    ELSE [raises |-> "None", x |-> FSub(xm, rx), y |-> FSub(ym, ry)]

\* xm, ym, rx and ry, from a and h.
IntersectionPoints(x0, y0, dx, dy, d, a, h) ==
    LowerSolution(FAdd(x0, FDiv(FMul(a, dx), d)),
                  FAdd(y0, FDiv(FMul(a, dy), d)),
                  FMul(FNeg(dy), FDiv(h, d)),
                  FMul(dx, FDiv(h, d)))

\* h = sqrt(max(0.0, r0^2 - a^2)).
HeightOf(r0, a) == FSqrt(FMax0(FSub(FMul(r0, r0), FMul(a, a))))

\* a = (r0^2 - r1^2 + d^2) / (2d).
AlongOf(r0, r1, d) ==
    FDiv(FAdd(FSub(FMul(r0, r0), FMul(r1, r1)), FMul(d, d)),
         FMul(FromInt(2), d))

WithA(x0, y0, dx, dy, d, r0, a) ==
    IntersectionPoints(x0, y0, dx, dy, d, a, HeightOf(r0, a))

\* The two tests before the solution.
Solve(x0, y0, dx, dy, d, r0, r1) ==
    IF d.m = <<>> THEN NoIntersection
    ELSE IF \/ FLt(FAdd(r0, r1), FSub(d, Tolerance))
            \/ FLt(FAdd(d, Tolerance), FAbs(FSub(r0, r1)))
    THEN NoIntersection
    ELSE WithA(x0, y0, dx, dy, d, r0, AlongOf(r0, r1, d))

WithD(x0, y0, dx, dy, r0, r1) ==
    Solve(x0, y0, dx, dy, FHypot(dx, dy), r0, r1)

\* The lower intersection of the two circles around the motors.
xy_from_lengths(self, left_len, right_len) ==
    WithD(self.left_motor.x, self.left_motor.y,
          FSub(self.right_motor.x, self.left_motor.x),
          FSub(self.right_motor.y, self.left_motor.y),
          left_len, right_len)

\* tests/test_kinematics.py: the board of the test, and points of it.  x runs
\* over the board's width in MaxGrid equal steps (115/3 mm each), y is the
\* top edge, 10 mm below it, or the bottom edge.
BoardWidth == 1150

BoardHeight == 730

MaxGrid == 30

KinCalls ==
    {[fn |-> "lengths_and_inverse",
      x  |-> FDiv(FromInt(k * BoardWidth), FromInt(MaxGrid)),
      y  |-> FromInt(y)] : k \in 0 .. MaxGrid, y \in {0, 10, BoardHeight}}

InitKin == IdleSender /\ arg \in KinCalls /\ ret = <<>>

\* test_lengths_and_inverse, for one point: the lengths, then the inverse.
LengthsAndInverse ==
    /\ arg.fn = "lengths_and_inverse" /\ ret = <<>>
    /\ LET pg == Polargraph(BoardWidth, BoardHeight)
           l  == lengths_for_xy(pg, arg.x, arg.y)
       IN  ret' = xy_from_lengths(pg, l.lx, l.rx)
    /\ UNCHANGED <<arg, scope, cfg, cur, last, jobs, thr, telemetry, call, wire,
                   cancel_at, hist>>

NextKin == LengthsAndInverse

SpecKin == InitKin /\ [][NextKin]_vars

\* ------------------------------------------ the knobs and the queue rules
MaxQueue == 5       \* largest queue size and largest remainder tried

\* Constructor arguments around every clamp: below the minimum, inside, and
\* above the bound that the clamp compares with.  A capacity of 503 is the
\* smallest whose default fill target (capacity - 500) is above 1.
KnobArgs ==
    { [DefaultArgs EXCEPT !.batch_size = bs, !.max_points_per_request = mppr,
                          !.controller_queue_capacity = cap,
                          !.queue_fill_target = qft,
                          !.queue_low_watermark = low,
                          !.min_chunk_size = mcs] :
        bs \in {0, 1, 3}, mppr \in {0, 2}, cap \in {0, 2, 4, 503},
        qft \in {<<>>, <<0>>, <<3>>, <<9>>}, low \in {-1, 1, 5},
        mcs \in {0, 2, 5} }

\* A sender is constructed; no job is started on it.
InitKnobs ==
    /\ arg \in {[fn |-> "__init__", a |-> a] : a \in KnobArgs}
    /\ cfg = PathSenderInit(arg.a)
    /\ scope = LineScope(cfg)
    /\ InitSlots
    /\ telemetry = NoPayload
    /\ call = IdleCall
    /\ ret = <<>>

\* _controller_allows_send is asked about a status answer with queue.size.
ControllerAllowsSend ==
    \E size \in -1 .. MaxQueue, e \in BOOLEAN :
        /\ arg' = [fn |-> "_controller_allows_send",
                   data |-> QueuePayload(size, e)]
        /\ ret' = <<_controller_allows_send(cfg, arg'.data)>>
        /\ UNCHANGED <<scope, cfg, cur, last, jobs, thr, telemetry, call,
                       wire, cancel_at, hist>>

\* _determine_chunk_size is asked for a batch after the first, with the
\* last status answer (with queue.size, or without) and 1 .. MaxQueue points
\* remaining.
DetermineChunkSize ==
    \E data \in {NoPayload, StatusPayload("idle")}
                \cup {QueuePayload(size, e) :
                        size \in -1 .. MaxQueue, e \in BOOLEAN},
       remaining \in 1 .. MaxQueue :
        /\ telemetry' = data
        /\ arg' = [fn |-> "_determine_chunk_size", data |-> data,
                   remaining |-> remaining]
        /\ ret' = <<_determine_chunk_size(
                        cfg, [n_points |-> remaining + 1, sent_points |-> 1],
                        FALSE, data)>>
        /\ UNCHANGED <<scope, cfg, cur, last, jobs, thr, call, wire,
                       cancel_at, hist>>

SpecKnobs == InitKnobs /\ [][ControllerAllowsSend \/ DetermineChunkSize]_vars

\* ------------------------------------------------------------- claims
Active(j) == jobs[j].status \in ACTIVE_JOB_STATUSES

Terminal(j) == jobs[j].status \in FINAL_JOB_STATUSES

\* C1: at every moment at most one job has status pending, running or
\* cancelling.
C1_AtMostOneActiveJob ==
    Cardinality({j \in JobIds : Active(j)}) <= 1

\* C1 fails: a job can be left in status cancelling for ever (see C2) while
\* a second job is installed.
C1_TwoActiveJobs ==
    \E i, j \in JobIds : i # j /\ Active(i) /\ Active(j)

\* C2: once a job's status is completed, cancelled or failed, its status,
\* sent_points, sent_batches and error never change again.
C2_TerminalJobIsFrozen ==
    [][\A j \in JobIds :
          Terminal(j) =>
              /\ jobs'[j].status = jobs[j].status
              /\ jobs'[j].sent_points = jobs[j].sent_points
              /\ jobs'[j].sent_batches = jobs[j].sent_batches
              /\ jobs'[j].error = jobs[j].error]_vars

\* C3: for every job whose status is completed, cancelled or failed,
\* sent_points equals len(points) if and only if the status is completed.
C3_AllSentIffCompleted ==
    \A j \in JobIds :
        Terminal(j) =>
            (jobs[j].sent_points = jobs[j].n_points
                <=> jobs[j].status = "completed")

\* A job cancelled after some of its batches were accepted, and none missing
\* but the last.
C3_Witness ==
    \E j \in JobIds :
        /\ jobs[j].status = "cancelled"
        /\ jobs[j].sent_points > 0
        /\ jobs[j].sent_points < jobs[j].n_points

\* C4: a cancel issued while the job's worker is in a wait state (blocked on
\* the pause gate, sleeping between retries, sleeping between status polls,
\* or inside an outbound HTTP request) leads the job to end in status
\* cancelled: when the worker and the cancel call are over, the status is
\* cancelled.
C4_CancelInWaitEndsCancelled ==
    \A j \in JobIds :
        /\ cancel_at[j] \in {"gate", "retry_sleep", "poll", "http"}
        /\ thr[j].pc = "done"
        /\ call.pc \in {"idle", "post"}
        => jobs[j].status = "cancelled"

\* The ways C4 fails: the job ends completed, failed, or is left cancelling.
C4_EndsCompleted ==
    \E j \in JobIds :
        /\ cancel_at[j] = "http" /\ thr[j].pc = "done" /\ call.pc = "idle"
        /\ jobs[j].status = "completed"

\* The worker of job j is blocked on the pause gate (lines 327 and 517).
Blocked(j) == thr[j].pc \in {"gate", "send"} /\ ~jobs[j].pause_event

\* C5 as stated: after pause is applied to a pending or running job the
\* worker starts no new batch POST until resume is called.
C5_NoPostWhilePaused ==
    [][\A j \in JobIds :
          jobs[j].paused => wire'[j].n = wire[j].n]_vars

\* C5, amended: a POST is started only by a worker that has passed the gate
\* of line 517 since its last attempt, and it sends from sent_points; the
\* gate is passed only while the job is not paused; a worker blocked on the
\* gate of a paused job stays there, and sent_points stays, until resume (or
\* cancel).  So after pause at most the one attempt already past the gate is
\* started.
C5_PostOnlyPastOpenGate ==
    [][\A j \in JobIds :
          /\ wire'[j].n # wire[j].n =>
                /\ thr[j].pc = "gated"
                /\ thr'[j].pc = "posting"
                /\ wire'[j].batch.start = jobs[j].sent_points
          /\ (thr'[j].pc = "gated" /\ thr[j].pc # "gated") =>
                ~jobs[j].paused /\ thr[j].pc = "send"
          /\ thr[j].pc = "posting" => thr'[j].pc # "gated"
          /\ (jobs[j].paused /\ jobs'[j].paused /\ Blocked(j)) =>
                /\ thr'[j].pc \in {thr[j].pc, "finally"}
                /\ jobs'[j].sent_points = jobs[j].sent_points
                /\ wire'[j] = wire[j]]_vars

\* A paused job whose worker is blocked on the gate before a retry.
C5_Witness ==
    \E j \in JobIds :
        /\ jobs[j].paused /\ ~jobs[j].cancel_event
        /\ thr[j].pc = "send" /\ thr[j].attempt >= 1
        /\ jobs[j].sent_points >= 1

PostStarts(j) == wire'[j].n # wire[j].n

\* The controller's reply to the last POST of job j accepts the batch: a 2xx
\* reply that _validate_controller_ack lets pass.
Accepted(o) == o \in {"ok", "ack_malformed"}

\* C7: sent_points advances by exactly the length of the batch, and
\* sent_batches by one, when and only when the controller's reply accepts
\* the batch; after a failed attempt both counters are unchanged, and the
\* next attempt resends the identical batch.
C7_CountersFollowAcceptance ==
    [][\A j \in JobIds :
          LET accepted == /\ wire[j].outcome = "inflight"
                          /\ Accepted(wire'[j].outcome)
          IN  /\ accepted =>
                    /\ jobs'[j].sent_points =
                           jobs[j].sent_points + wire[j].batch.len
                    /\ jobs'[j].sent_batches = jobs[j].sent_batches + 1
              /\ ~accepted =>
                    /\ jobs'[j].sent_points = jobs[j].sent_points
                    /\ jobs'[j].sent_batches = jobs[j].sent_batches
              /\ (PostStarts(j) /\ wire[j].n > 0
                      /\ ~Accepted(wire[j].outcome)) =>
                    wire'[j].batch = wire[j].batch]_vars

\* A 503 and then a 200: the second attempt of a batch has been accepted.
C7_Witness ==
    \E j \in JobIds :
        /\ thr[j].pc = "loop" /\ thr[j].attempt = 2
        /\ wire[j].outcome = "ok"
        /\ jobs[j].sent_batches >= 2
        /\ jobs[j].sent_points = wire[j].batch.start + wire[j].batch.len

\* C8: within one job a batch POST starts only when the previous one has
\* been answered, and its batch is the slice of job.points that starts at
\* the current sent_points, not empty and within the list: right after the
\* previous batch when that one was accepted, the same batch otherwise.
C8_BatchesInOrder ==
    [][\A j \in JobIds :
          /\ wire'[j].n \in {wire[j].n, wire[j].n + 1}
          /\ PostStarts(j) =>
                /\ wire[j].outcome # "inflight"
                /\ wire'[j].outcome = "inflight"
                /\ wire'[j].batch.start = jobs[j].sent_points
                /\ wire'[j].batch.len >= 1
                /\ wire'[j].batch.start + wire'[j].batch.len
                       <= jobs[j].n_points
                /\ wire[j].n = 0 => wire'[j].batch.start = 0
                /\ (wire[j].n > 0 /\ Accepted(wire[j].outcome)) =>
                       wire'[j].batch.start =
                           wire[j].batch.start + wire[j].batch.len]_vars

\* The third batch of a job is in flight.
C8_Witness ==
    \E j \in JobIds :
        /\ thr[j].pc = "posting"
        /\ jobs[j].sent_batches = 2
        /\ wire[j].batch.start = 2

\* C9: whenever a batch is sent while the last queue telemetry reports
\* queue size s, s + batch_len <= controller_queue_capacity.
C9_BatchFitsQueue ==
    [][\A j \in JobIds :
          (PostStarts(j) /\ telemetry.kind = "queue") =>
              telemetry.size + wire'[j].batch.len
                  <= cfg.controller_queue_capacity]_vars

C11_BusyInstallsNothing ==
    [][/\ (cur # 0 /\ Active(cur)) =>
              /\ Len(jobs') = Len(jobs)
              /\ Len(thr') = Len(thr)
              /\ cur' \in {cur, 0}
       /\ Len(jobs') # Len(jobs) =>
              /\ Len(jobs') = Len(jobs) + 1
              /\ \A j \in JobIds : jobs'[j] = jobs[j] /\ thr'[j] = thr[j]]_vars

\* A start_job call is refused: the slot holds a running job that has sent
\* a batch, and another job could still be installed.
C11_Witness ==
    /\ LockFree /\ Busy
    /\ Len(jobs) < scope.jobs
    /\ jobs[cur].status = "running" /\ jobs[cur].sent_points >= 1

\* The reply r to the POST of job j in flight arrives in this step.
Replied(j, r) == wire[j].outcome = "inflight" /\ wire'[j].outcome = r

\* C12: a batch POST that follows a failed one follows a connect/read
\* timeout, a connection error or an HTTP 5xx; after an HTTP 4xx the worker
\* makes no further attempt and the job becomes failed with that error.
C12_RetryOnlyRetryable ==
    [][\A j \in JobIds :
          /\ (PostStarts(j) /\ wire[j].n > 0 /\ ~Accepted(wire[j].outcome))
                => wire[j].outcome \in {"timeout", "conn_error", "http5xx"}
          /\ Replied(j, "http4xx") =>
                /\ jobs'[j].status = "failed"
                /\ jobs'[j].error = "http4xx"
                /\ thr'[j].pc = "finally"
          /\ wire[j].outcome = "http4xx" => wire'[j] = wire[j]]_vars

\* The first POST of a job was answered with an HTTP 4xx and the job failed.
C12_Witness ==
    \E j \in JobIds :
        /\ wire[j].n = 1 /\ wire[j].outcome = "http4xx"
        /\ jobs[j].status = "failed" /\ jobs[j].error = "http4xx"
        /\ thr[j].pc = "done"

\* C13: the worker never retries a batch past the send_retry_timeout
\* deadline: every POST after the first attempt of a batch starts no later
\* than send_retry_timeout after _post_with_retries was entered.
C13_NoRetryPastDeadline ==
    [][\A j \in JobIds :
          (PostStarts(j) /\ thr[j].attempt >= 1)
              => thr[j].elapsed <= cfg.send_retry_timeout]_vars

\* A retry is in flight that was started past the deadline.
C13_LateRetry ==
    \E j \in JobIds :
        /\ thr[j].pc = "posting" /\ thr[j].attempt = 2
        /\ thr[j].elapsed > cfg.send_retry_timeout

\* C14: when the controller answers a batch POST with a successful HTTP
\* status but an acknowledgement that is malformed or carries an error field
\* or an unrecognized status, the job becomes failed at once: no retry, and
\* sent_points stays.
C14_BadAckFails ==
    [][\A j \in JobIds :
          (Replied(j, "ack_malformed") \/ Replied(j, "ack_error")) =>
              /\ jobs'[j].status = "failed"
              /\ jobs'[j].sent_points = jobs[j].sent_points
              /\ thr'[j].pc = "finally"]_vars

\* A job completed although an acknowledgement was malformed.
C14_CompletedOnMalformedAck ==
    \E j \in JobIds :
        /\ wire[j].outcome = "ack_malformed"
        /\ jobs[j].status = "completed"

\* C15: status() returns the idle snapshot of a job on one call only, and
\* once it has, the coordinator keeps no reference to the job; a job that
\* has reached a terminal state and whose worker has ended is forgotten by
\* the first status() call that follows.
C15_IdleSnapshotOnce ==
    \A j \in JobIds :
        /\ hist[j].idle_seen <= 1
        /\ hist[j].idle_seen = 1 => (cur # j /\ last # j)

\* status() has returned the idle snapshot of one job twice.
C15_SeenTwice ==
    \E j \in JobIds : hist[j].idle_seen = 2

\* The slot holds a job that is pending or running.
PendingOrRunning == cur # 0 /\ jobs[cur].status \in {"pending", "running"}

\* C16: pause, resume and cancel called when the current job is not pending
\* or running are no-ops: no field of any job changes, the two slots stay,
\* and no request to the controller follows (the cancel call goes no
\* further).
C16_NoOpOutsidePendingRunning ==
    [][(/\ ~PendingOrRunning
        /\ call.pc = "idle"
        /\ (CancelBegin \/ PauseCurrent \/ ResumeCurrent))
            => UNCHANGED <<jobs, cur, last, call>>]_vars

\* A second POST to the cancel URL is about to be sent for a job that was
\* already cancelling when cancel was called again.
C16_SecondCancelPost ==
    /\ call.pc = "post"
    /\ hist[call.job].cancel_posts = 1
    /\ jobs[call.job].status = "cancelling"

\* C17: the POST to a job's cancel URL is made only when the worker has
\* honoured the cancel, and no batch POST of the job is started after it.
C17_CancelPostAfterWorker ==
    [][\A j \in JobIds :
          /\ hist'[j].cancel_posts > hist[j].cancel_posts
                => thr[j].pc \in {"finally", "done"}
          /\ PostStarts(j) => hist[j].cancel_posts = 0]_vars

\* The cancel URL has been POSTed and the worker, past the pause gate, is
\* about to POST a batch.
C17_BatchAfterCancelPost ==
    \E j \in JobIds :
        thr[j].pc = "gated" /\ hist[j].cancel_posts >= 1

\* C18: for a job with a cancel URL that has ended cancelled, the cancel URL
\* has been POSTed exactly once.
C18_CancelPostedOnce ==
    \A j \in JobIds :
        (/\ jobs[j].cancel_url
         /\ jobs[j].status = "cancelled"
         /\ thr[j].pc = "done"
         /\ call.pc = "idle")
            => hist[j].cancel_posts = 1

\* A job has ended cancelled and its cancel URL was POSTed twice.
C18_PostedTwice ==
    \E j \in JobIds :
        /\ jobs[j].status = "cancelled" /\ thr[j].pc = "done"
        /\ hist[j].cancel_posts = 2

\* C19: once a job is failed or cancelled its worker starts no batch POST
\* and no status poll (it only has its finally block left), and the status
\* never is an active one again.
C19_FailedOrCancelledStays ==
    [][\A j \in JobIds :
          jobs[j].status \in {"failed", "cancelled"} =>
              /\ wire'[j] = wire[j]
              /\ thr'[j].pc \in {"finally", "done"}
              /\ jobs'[j].status \notin ACTIVE_JOB_STATUSES]_vars

\* A job that had been marked cancelled is cancelling, and its worker has
\* ended.
C19_BackToCancelling ==
    \E j \in JobIds :
        /\ jobs[j].status = "cancelling" /\ jobs[j].error = "Cancelled"
        /\ thr[j].pc = "done"

\* C20: when the status endpoint answers 404 the readiness check returns at
\* once with the telemetry cleared: the worker goes on to size the batch,
\* and the job is as it was.
C20_NotFoundProceeds ==
    [][\A j \in JobIds :
          (/\ thr[j].pc = "poll"
           /\ thr[j].elapsed < cfg.status_timeout /\ ~jobs[j].cancel_event
           /\ RunPoll(j, StatusOf("404", NoPayload)))
              => /\ thr'[j].pc = "chunk"
                 /\ telemetry' = NoPayload
                 /\ jobs'[j] = jobs[j]]_vars

\* In a run where only a 404 clears the telemetry of a poll: the first poll
\* of a later batch was answered 404 and the worker is sizing the batch
\* without telemetry.
C20_Witness ==
    \E j \in JobIds :
        /\ jobs[j].status_url /\ jobs[j].status = "running"
        /\ thr[j].pc = "chunk" /\ thr[j].errors = 0
        /\ telemetry = NoPayload

\* An unparseable status response: HTTP 200 with a body that is no JSON
\* object, which _extract_status_payload turns into None.
Unparseable == StatusOf("200", NoPayload)

\* C21: the readiness check keeps polling after the first and the second
\* consecutive unparseable status response and lets the send proceed on the
\* third.
C21_ProceedOnThirdUnparseable ==
    [][\A j \in JobIds :
          (/\ thr[j].pc = "poll"
           /\ thr[j].elapsed < cfg.status_timeout /\ ~jobs[j].cancel_event
           /\ RunPoll(j, Unparseable))
              => (thr'[j].pc = "chunk" <=> thr[j].errors + 1 >= 3)]_vars

\* A point list start_job has to refuse: empty, or with an element that is
\* no dictionary, lacks a coordinate, or has a coordinate that is no finite
\* number.
InvalidPoints(points) ==
    \/ Len(points) = 0
    \/ \E i \in 1 .. Len(points) :
          \/ ~points[i].dict
          \/ {points[i].x, points[i].y} \cap {"absent", "nan", "text", "None"} # {}

\* C22: start_job given an empty list, or a list with an element that lacks
\* a coordinate, has a non-finite coordinate or is unrecognizable, raises
\* ValueError and installs no job, starts no worker and sends nothing.
C22_InvalidPointsRejected ==
    [][\A a \in scope.args, state_read \in BOOLEAN :
          InvalidPoints(a.points) =>
              /\ StartJobError(a, state_read) = "ValueError"
              /\ ~StartJob(a, state_read)]_vars

\* A job is installed whose points have a nan coordinate.
C22_JobWithNaN ==
    \E j \in JobIds : \E i \in 1 .. Len(jobs[j].points) :
        jobs[j].points[i].x = "nan"

\* C25: the point list of a new job is one pen-up point at the first user
\* point's coordinates, followed by every user point, normalized, in the
\* original order and with its pen state; it is one longer than the input.
C25_TravelThenUserPoints ==
    [][\A a \in scope.args, state_read \in BOOLEAN :
          (Len(jobs') > Len(jobs) /\ StartJob(a, state_read)) =>
              LET P == jobs'[Len(jobs')].points
              IN  /\ Len(P) = Len(a.points) + 1
                  /\ jobs'[Len(jobs')].n_points = Len(a.points) + 1
                  /\ P[1] = [ x |-> float(a.points[1].x).value,
                              y |-> float(a.points[1].y).value,
                              penDown |-> FALSE ]
                  /\ \A i \in 1 .. Len(a.points) :
                        P[i + 1] = [ x |-> float(a.points[i].x).value,
                                     y |-> float(a.points[i].y).value,
                                     penDown |-> a.points[i].penDown = "True" ]]_vars

\* A job of two user points, the first of them pen-down and the second given
\* with a coordinate as a string, has been installed and its first batch
\* accepted.
C25_Witness ==
    \E j \in JobIds :
        /\ jobs[j].points = << [x |-> "0", y |-> "1", penDown |-> FALSE],
                               [x |-> "0", y |-> "1", penDown |-> TRUE],
                               [x |-> "1", y |-> "0", penDown |-> FALSE] >>
        /\ jobs[j].sent_points >= 1

\* C23: a start_job call without start_position installs no job when no
\* controller state can be fetched (no status URL, a failed status request,
\* a response without a state object); when the state is fetched it is the
\* job's start_position.
C23_NoStartNeedsControllerState ==
    [][Len(jobs') > Len(jobs) =>
          \A a \in scope.args, r \in StateReplies :
              LET started ==
                      StartJob(a, _get_controller_state(a.status_url, r) # "None")
              IN  a.start = "none" =>
                      /\ (~a.status_url \/ r # "state") => ~started
                      /\ started => jobs'[Len(jobs')].start_position = "state"]_vars

\* A job started without start_position is running from the position the
\* controller reported.
C23_Witness ==
    \E j \in JobIds :
        jobs[j].start_position = "state" /\ jobs[j].status = "running"

\* C24: in every state of every job, 0 <= sent_points <= len(points) and
\* sent_batches <= total_batches.
C24_CountersInRange ==
    \A j \in JobIds :
        /\ 0 <= jobs[j].sent_points
        /\ jobs[j].sent_points <= Len(jobs[j].points)
        /\ jobs[j].sent_batches <= jobs[j].total_batches

\* A job has completed in more batches than its point count and batch size
\* announced: both counters are at their upper limit.
C24_Witness ==
    \E j \in JobIds :
        /\ jobs[j].status = "completed"
        /\ jobs[j].sent_points = Len(jobs[j].points)
        /\ jobs[j].sent_batches = jobs[j].total_batches
        /\ jobs[j].sent_batches > CeilDiv(Len(jobs[j].points), jobs[j].batch_size)

\* The batch POSTs of job j so far are the first k of the batches whose
\* lengths are first and then second, in this order.
SentAs(j, first, second) ==
    /\ wire[j].n <= 2
    /\ wire[j].n = 1 => wire[j].batch.start = 0 /\ wire[j].batch.len = first
    /\ wire[j].n = 2 => wire[j].batch.start = first /\ wire[j].batch.len = second

\* C26 as stated: a job started with 5 input points against a queue always
\* reported empty and idle sends 2 batches, of 1 and then 4 points, and ends
\* completed with sent_points = 5, the number of points supplied.
C26_OneThenFour ==
    \A j \in JobIds :
        /\ SentAs(j, 1, 4)
        /\ (Terminal(j) /\ ~jobs[j].cancel_event) =>
               /\ jobs[j].status = "completed"
               /\ jobs[j].sent_batches = 2
               /\ jobs[j].sent_points = 5

\* C26 amended: the job has the 5 points and the travel point; it sends 2
\* batches, the travel point and then the 5 points supplied, and ends
\* completed (unless cancelled) with sent_points = 6 = len(job.points).
C26_OneThenFive ==
    \A j \in JobIds :
        /\ Len(jobs[j].points) = 6
        /\ SentAs(j, 1, 5)
        /\ (Terminal(j) /\ ~jobs[j].cancel_event) =>
               /\ jobs[j].status = "completed"
               /\ jobs[j].sent_batches = 2
               /\ jobs[j].sent_points = 6
               /\ wire[j].n = 2

\* The job has completed, never cancelled.
C26_Witness ==
    \E j \in JobIds :
        /\ jobs[j].status = "completed" /\ ~jobs[j].cancel_event
        /\ thr[j].pc = "done" /\ wire[j].n = 2

\* ------------------------------------------- app.py: POST /api/send-path
\* A request body, by what queue_path_transmission reads in it: whether there
\* is a JSON body at all, whether controllerUrl is given, the value of path
\* ("absent", a string "text", or a list, whose elements are in points), and
\* speed ("absent", a number "1800", a string that is no number "fast", or
\* null "None").
SendPathRequest(data, controller, path, points, speed) ==
    [ data |-> data, controllerUrl |-> controller, path |-> path,
      points |-> points, speed |-> speed ]

SendPathRequests ==
    { SendPathRequest(d, c, p, pts, sp) :
        d \in BOOLEAN, c \in BOOLEAN, p \in {"absent", "text", "list"},
        pts \in {<<>>} \cup {<<e>> : e \in PointElements},
        sp \in {"absent", "1800", "fast", "None"} }

\* _normalize_transmission_points (43-66): ValueError for a value that is no
\* list and for an element that is neither a dict with x and y nor an array;
\* the coordinates go through float() as in _normalize_point.
_normalize_transmission_points(req) ==
    IF req.path # "list" THEN "ValueError" ELSE NormalizeRaises(req.points)

\* int(data.get('speed', 1800)), line 762.
SpeedRaises(speed) ==
    CASE speed = "fast" -> "ValueError"
      [] speed = "None" -> "TypeError"
      [] OTHER          -> "None"

\* The HTTP status queue_path_transmission answers with (734-799); busy is
\* whether start_job raises PathSenderBusyError.
queue_path_transmission(req, busy) ==
    IF ~req.data THEN 400
    ELSE IF ~req.controllerUrl THEN 400
    ELSE IF req.path = "absent" \/ (req.path = "list" /\ Len(req.points) = 0)
    THEN 400
    ELSE IF _normalize_transmission_points(req) = "ValueError" THEN 400
    ELSE IF _normalize_transmission_points(req) # "None" THEN 500
    ELSE IF SpeedRaises(req.speed) # "None" THEN 500
    ELSE IF busy THEN 409
    ELSE 200

\* A request the start operation has to refuse as invalid.
InvalidRequest(req) ==
    \/ ~req.data
    \/ ~req.controllerUrl
    \/ req.path # "list"
    \/ InvalidPoints(req.points)
    \/ req.speed \in {"fast", "None"}

\* C27: the start operation answers 400 for every invalid input and 409 for
\* a valid one while another job is active, and with 409 only then.
C27_InvalidIs400BusyIs409 ==
    \A req \in SendPathRequests :
        /\ InvalidRequest(req) => queue_path_transmission(req, Busy) = 400
        /\ (~InvalidRequest(req) /\ Busy)
               => queue_path_transmission(req, Busy) = 409
        /\ queue_path_transmission(req, Busy) = 409 => Busy

\* While a job is active a request with an invalid speed is answered 500.
C27_InvalidSpeedIs500 ==
    /\ Busy
    /\ queue_path_transmission(
           SendPathRequest(TRUE, TRUE, "list", <<Point("0", "1", "True")>>,
                           "fast"), Busy) = 500

\* C30: whenever a job is pending, running or cancelling and its worker has
\* not ended, the current-job slot refers to it; and the step that ends a
\* worker clears the slot only when the slot holds that worker's job.
C30_ActiveJobIsInSlot ==
    [][/\ \A j \in JobIds :
             (Active(j) /\ thr[j].pc # "done") => cur = j
       /\ \A j \in JobIds :
             (thr[j].pc = "finally" /\ thr'[j].pc = "done" /\ cur # j)
                 => cur' = cur]_vars

\* A worker is sending the batches of its job while the slot is empty.
C30_OrphanedJob ==
    \E j \in JobIds :
        /\ jobs[j].status = "running" /\ thr[j].pc = "posting"
        /\ cur = 0

\* C29: for a list of non-empty segments the planned path begins with a
\* pen-up point at the first segment's start, has a pen-up point at the
\* start of each later segment that lies at least pen_up_threshold_mm from
\* the end of the segment before it, and ends with the last segment's last
\* point, pen-down.
C29_PenAwarePath ==
    (arg # <<>> /\ arg.fn = "plan_pen_aware_path" /\ ret # <<>>) =>
        LET segs == arg.path
            last_seg == segs[Len(segs)]
        IN  /\ ret[1] = At(segs[1][1], FALSE)
            /\ \A k \in 2 .. Len(segs) :
                  Dist2(segs[k - 1][Len(segs[k - 1])], segs[k][1])
                      >= arg.pen_up_threshold_mm * arg.pen_up_threshold_mm
                  => \E i \in 2 .. Len(ret) : ret[i] = At(segs[k][1], FALSE)
            /\ ret[Len(ret)] = At(last_seg[Len(last_seg)], TRUE)

\* A path has been planned for two segments, the second starting 4 mm from
\* the end of the first: the pen travels there raised, after the first
\* segment was drawn in two steps.
C29_Witness ==
    /\ arg # <<>> /\ arg.fn = "plan_pen_aware_path"
    /\ arg.path = << <<<<0, 0>>, <<3, 0>>>>, <<<<3, 4>>, <<0, 0>>>> >>
    /\ ret # <<>>
    /\ Len(ret) = 9
    /\ ret[2] = Entry(Frac(0, 1), Frac(0, 1), TRUE)
    /\ ret[3] = Entry(Frac(3, 2), Frac(0, 1), TRUE)
    /\ ret[5] = At(<<3, 4>>, FALSE)

\* ------------------------------------------- kinematics.py: round trip
\* C28: for every point (x, y) within the board bounds, the cable lengths of
\* the point, put through the inverse geometry, give (x, y) back to within
\* 1e-6 in both coordinates.
C28_RoundTripWithin1e6 ==
    (arg # <<>> /\ ret # <<>> /\ arg.fn = "lengths_and_inverse")
        => /\ ret.raises = "None"
           /\ Close(arg.x, ret.x)
           /\ Close(arg.y, ret.y)

\* A point of the top edge comes back more than 1e-6 below the edge.
C28_OffTheTopEdge ==
    /\ arg # <<>> /\ ret # <<>> /\ arg.fn = "lengths_and_inverse"
    /\ arg.x = FDiv(FromInt(BoardWidth), FromInt(MaxGrid))
    /\ arg.y = Zero
    /\ ret.raises = "None"
    /\ Close(arg.x, ret.x)
    /\ ~Close(arg.y, ret.y)

\* ------------------------------------------- what the controller takes
\* C31: no point of a job is accepted by the controller more than once:
\* over all attempts of all batches, the requests the controller received
\* and accepted hold each index of job.points at most once.
C31_EachPointTakenOnce ==
    \A j \in JobIds :
        \A i \in DOMAIN hist[j].accepted : hist[j].accepted[i] <= 1

\* The job is completed, its worker is over, and the controller has taken
\* the two user points twice: once in a POST that timed out, once in the
\* retry.
C31_TakenTwice ==
    \E j \in JobIds :
        /\ jobs[j].status = "completed" /\ thr[j].pc = "done"
        /\ jobs[j].n_points = 3
        /\ hist[j].accepted = <<1, 2, 2>>

\* ------------------------------------------------------ the state table
\* C32: a job's status only ever changes along the transitions of the state
\* table: pending to running, pending to cancelled, running to completed,
\* running to failed, running to cancelling, cancelling to cancelled.
C32_StatusFollowsTable ==
    [][\A j \in JobIds :
          \/ jobs'[j].status = jobs[j].status
          \/ <<jobs[j].status, jobs'[j].status>> \in
                 { <<"pending", "running">>, <<"pending", "cancelled">>,
                   <<"running", "completed">>, <<"running", "failed">>,
                   <<"running", "cancelling">>,
                   <<"cancelling", "cancelled">> }]_vars

\* A job cancelled while pending went to cancelling, and its worker, when it
\* started, has overwritten that with running: the cancel call is over, the
\* cancel flag is set and the status is running.
C32_CancellingToRunning ==
    \E j \in JobIds :
        /\ cancel_at[j] = "other"
        /\ jobs[j].cancel_event /\ call.pc = "idle"
        /\ jobs[j].status = "running"
        /\ thr[j].pc = "loop" /\ jobs[j].sent_points = 0

\* ------------------------------------------------ jobs without status URL
\* C33: when a job has no status URL, every batch after the first is sized
\* by the no-telemetry rule, so the worker never picks chunk size 0 while
\* points remain, whatever telemetry an earlier job's polls left behind.
C33_NoStatusUrlNoTelemetry ==
    \A j \in JobIds :
        (/\ ~jobs[j].status_url
         /\ thr[j].pc = "chunk" /\ ~thr[j].first_batch
         /\ jobs[j].sent_points < jobs[j].n_points)
        => /\ _determine_chunk_size(cfg, jobs[j], FALSE, telemetry)
                = _determine_chunk_size(cfg, jobs[j], FALSE, NoPayload)
           /\ _determine_chunk_size(cfg, jobs[j], FALSE, telemetry) > 0

\* The second job, without status URL, has sent its first batch and sizes
\* its second by the full queue the first job's last poll reported: 0.
C33_StaleTelemetryStalls ==
    /\ Len(jobs) = 2
    /\ jobs[1].status_url /\ Terminal(1) /\ thr[1].pc = "done"
    /\ ~jobs[2].status_url
    /\ thr[2].pc = "chunk" /\ jobs[2].sent_points = 1
    /\ jobs[2].n_points = 2
    /\ telemetry = QueuePayload(cfg.controller_queue_capacity, TRUE)
    /\ _determine_chunk_size(cfg, jobs[2], thr[2].first_batch, telemetry) = 0

\* --------------------------------------------------- building the payload
\* C34: a job accepted by start_job never fails while building a batch
\* payload: with reset true and any start position start_job accepted, one
\* holding only x and y included, the worker that has left line 355 for its
\* first batch has built a payload with startPosition, and no job is failed
\* by the exception of a missing key.
C34_PayloadIsBuilt ==
    \A j \in JobIds :
        /\ jobs[j].error # "'penDown'"
        /\ (/\ jobs[j].reset /\ jobs[j].start_position # "none"
            /\ thr[j].first_batch /\ thr[j].pc \in {"send", "gated", "posting"})
           => thr[j].payload.startPosition

\* A job started as the HTTP route starts it (reset true, a start position
\* of x and y) has failed with KeyError 'penDown' before its first POST.
C34_FailedBeforeFirstPost ==
    \E j \in JobIds :
        /\ jobs[j].reset /\ jobs[j].start_position = "xy"
        /\ jobs[j].status = "failed" /\ jobs[j].error = "'penDown'"
        /\ jobs[j].sent_points = 0 /\ wire[j].n = 0
        /\ thr[j].pc = "done"

\* ------------------------------------------------------------ termination
\* C35: if the controller accepts every batch POST, every status poll
\* permits sending, and no pause or cancel is issued, the worker terminates
\* with the job completed and sent_points = len(points).  The controller of
\* this specification accepts and permits everything; a job whose pause or
\* cancel flag is set is outside the claim.
C35_AcceptedJobCompletes ==
    (1 \in JobIds) ~>
        (1 \in JobIds /\
            \/ jobs[1].paused \/ jobs[1].cancel_event
            \/ /\ thr[1].pc = "done"
               /\ jobs[1].status = "completed"
               /\ jobs[1].sent_points = jobs[1].n_points)

\* A job that was never paused or cancelled, on a controller that accepts
\* everything, has ended failed with nothing sent.
C35_EndsFailed ==
    /\ 1 \in JobIds
    /\ cancel_at[1] = "none" /\ ~jobs[1].paused /\ ~jobs[1].cancel_event
    /\ thr[1].pc = "done" /\ jobs[1].status = "failed"
    /\ jobs[1].sent_points = 0

\* ------------------------------------------------------------- the knobs
\* C39: for every combination of constructor arguments the clamped
\* configuration satisfies 1 <= batch_size <= max_points_per_request,
\* 1 <= min_chunk_size <= max_points_per_request, and
\* queue_low_watermark < queue_fill_target <= controller_queue_capacity.
C39_KnobsAreOrdered ==
    /\ 1 <= cfg.batch_size /\ cfg.batch_size <= cfg.max_points_per_request
    /\ 1 <= cfg.min_chunk_size
    /\ cfg.min_chunk_size <= cfg.max_points_per_request
    /\ cfg.queue_low_watermark < cfg.queue_fill_target
    /\ cfg.queue_fill_target <= cfg.controller_queue_capacity

\* A sender constructed with a low watermark above its queue capacity: the
\* fill target is the capacity and the low watermark is above it.
C39_LowAboveFill ==
    /\ arg.fn = "__init__"
    /\ arg.a.controller_queue_capacity = 2 /\ arg.a.queue_low_watermark = 5
    /\ IsNone(arg.a.queue_fill_target)
    /\ cfg.queue_fill_target = 2 /\ cfg.queue_low_watermark = 5

\* C36: with queue size telemetry the readiness check answers yes when
\* size <= low_watermark or the queue is empty and not executing, no when
\* size >= fill_target, and yes when size lies between the two, for every
\* configuration the constructor can produce.
C36_ReadinessFollowsQueue ==
    (arg.fn = "_controller_allows_send") =>
        LET size == arg.data.size
        IN  /\ (size <= cfg.queue_low_watermark) => ret[1]
            /\ (size = 0 /\ ~arg.data.isExecuting) => ret[1]
            /\ (size >= cfg.queue_fill_target) => ~ret[1]
            /\ (cfg.queue_low_watermark < size
                    /\ size < cfg.queue_fill_target) => ret[1]

\* The check has answered no for a queue size that is not above the low
\* watermark.
C36_NoAtLowWatermark ==
    /\ arg.fn = "_controller_allows_send"
    /\ arg.data.size <= cfg.queue_low_watermark
    /\ ret = <<FALSE>>

\* C37: for every batch after the first the chunk size chosen equals the
\* specified decision function: with queue size telemetry, 0 when
\* capacity - size leaves nothing available, and otherwise
\* min(remaining, max(desired_fill, min_chunk), available, batch_size,
\* max_per_request), where available = max(capacity - size, 0) and
\* desired_fill = max(fill_target - size, 0); without queue telemetry,
\* min(remaining, max(min_chunk, batch_size), max_per_request).
C37_ChunkFollowsRule ==
    (arg.fn = "_determine_chunk_size") =>
        LET remaining == arg.remaining
            size == arg.data.size
            available == Max(cfg.controller_queue_capacity - size, 0)
            desired_fill == Max(cfg.queue_fill_target - size, 0)
        IN  ret[1] =
              IF arg.data.kind = "queue"
              THEN IF available = 0 THEN 0
                   ELSE Min5(remaining,
                             Max(desired_fill, cfg.min_chunk_size),
                             available, cfg.batch_size,
                             cfg.max_points_per_request)
              ELSE Min(remaining,
                       Min(Max(cfg.min_chunk_size, cfg.batch_size),
                           cfg.max_points_per_request))

\* A batch after the first was cut to what the controller's queue can still
\* take: fewer points than remain and fewer than batch_size.
C37_CutToAvailable ==
    /\ arg.fn = "_determine_chunk_size"
    /\ arg.data.kind = "queue" /\ arg.data.size > 0
    /\ ret[1] = cfg.controller_queue_capacity - arg.data.size
    /\ ret[1] > 0 /\ ret[1] < arg.remaining /\ ret[1] < cfg.batch_size

\* ------------------------------------------------------- the status poll
\* C38: a failed status poll is classified like a failed send: a timeout,
\* connection error or HTTP 5xx is retried (the worker polls again), a
\* non-404 HTTP 4xx is terminal and makes the job failed, and only a 404
\* short-circuits to proceed with the batch.  Stated of every poll that is
\* made (before the deadline, not cancelled) and its answer r.
C38_PollClassifiedLikeSend ==
    [][\A j \in JobIds : \A r \in scope.status :
          (/\ RunPoll(j, r)
           /\ thr[j].elapsed < cfg.status_timeout
           /\ ~jobs[j].cancel_event)
          => /\ r.code \in {"timeout", "conn_error", "http5xx"}
                    => thr'[j].pc = "poll"
             /\ r.code = "http4xx" => jobs'[j].status = "failed"
             /\ (r.code # "200" /\ thr'[j].pc = "chunk") => r.code = "404"
      ]_vars

\* The worker has stopped polling after three failed polls and goes on to
\* size and send the batch; the job is running.
C38_ProceedsAfterThreeErrors ==
    \E j \in JobIds :
        /\ jobs[j].status_url /\ jobs[j].status = "running"
        /\ thr[j].pc = "chunk" /\ thr[j].errors = 3
        /\ telemetry = NoPayload

\* ------------------------------------------------- the readiness deadline
\* C40: if every status poll keeps answering that the controller is not
\* ready (queue at or above the fill target, or busy) until status_timeout
\* has elapsed and no cancel is requested, the readiness check gives up
\* without sending the batch and the job becomes failed with error
\* 'Controller did not become ready in time'; the worker does not wait for
\* ever.  A poll answered not ready before the deadline leaves the job as it
\* is and is followed by another poll later in time; at the deadline the
\* worker gives up; and a worker that is polling stops polling.
C40_GivesUpAtStatusTimeout ==
    /\ [][\A j \in JobIds : \A r \in scope.status :
            (/\ RunPoll(j, r)
             /\ ~jobs[j].cancel_event
             /\ r.code = "200" /\ ~_controller_allows_send(cfg, r.body))
            => IF thr[j].elapsed >= cfg.status_timeout
               THEN /\ jobs'[j].status = "failed"
                    /\ jobs'[j].error = "Controller did not become ready in time"
                    /\ jobs'[j].sent_points = jobs[j].sent_points
                    /\ wire' = wire
                    /\ thr'[j].pc = "finally"
               ELSE /\ jobs' = jobs /\ wire' = wire
                    /\ thr'[j].pc = "poll"
                    /\ thr'[j].elapsed > thr[j].elapsed
       ]_vars
    /\ (1 \in JobIds /\ thr[1].pc = "poll")
          ~> (1 \in JobIds /\ thr[1].pc # "poll")

\* The worker has given up at the deadline: the last status answer said not
\* ready, the job was never cancelled, it is failed with the readiness
\* error, and points remain unsent.
C40_GaveUp ==
    /\ 1 \in JobIds
    /\ cancel_at[1] = "none" /\ ~jobs[1].cancel_event
    /\ thr[1].pc = "done" /\ ~_controller_allows_send(cfg, telemetry)
    /\ jobs[1].status = "failed"
    /\ jobs[1].error = "Controller did not become ready in time"
    /\ jobs[1].sent_points < jobs[1].n_points

====
